---- MODULE Spec2Model ----
(***************************************************************************)
(* Model of ScoopIt: the route orchestrator (index.js: fetchContent,       *)
(* generateFilesForRoute, processRoutes, processSinglePage), with the HTTP *)
(* server and the file system as the environment, and the content          *)
(* processor (utils/contentProcessor.js: isJsonContent, cleanHtml,         *)
(* extractMetaInfo, extractContent, convertToMarkdown), each function      *)
(* applied to a payload.                                                   *)
(*                                                                         *)
(* JavaScript values are records [type, v, a] (v: the characters of a      *)
(* string, a: the elements of an array or the members of an object);       *)
(* strings are sequences of tokens: a token stands for a run of characters *)
(* that the code never splits ("https:" is the scheme, "/" the slash, "<"  *)
(* opens a tag, any other token a run of ordinary characters).             *)
(***************************************************************************)
EXTENDS Naturals, Sequences, FiniteSets, TLC

VARIABLES
  entry,        \* which exported function the caller invoked
  pc,           \* position of the top-level call
  args,         \* the arguments as passed by the caller
  isTest,       \* process.env.NODE_ENV === 'test'
  baseUrl,      \* processRoutes: baseUrl after the default
  routes,       \* processRoutes: routes after the default
  validFormat,  \* processRoutes: validFormat
  i,            \* processRoutes: index of the loop (1-based)
  results,      \* processRoutes: results
  errors,       \* processRoutes: errors
  calls,        \* the invocations of generateFilesForRoute, in call order
  gets,         \* every GET issued: [call, url]
  dirs,         \* output directories ensured during the run
  files,        \* output files written during the run: [dir, name, ext, by]
  reply,        \* fetchContent called directly: the response it received
  outcome,      \* how the top-level call settled: [kind, value, error]
  fn,           \* content processor called directly: the function applied
  payload,      \* content processor called directly: the content argument
  isJsonFlag,   \* content processor called directly: the isJson argument
  out           \* content processor called directly: the value returned

orchestrator == <<entry, pc, args, isTest, baseUrl, routes, validFormat, i, results,
                  errors, calls, gets, dirs, files, reply, outcome>>

vars == <<entry, pc, args, isTest, baseUrl, routes, validFormat, i, results,
          errors, calls, gets, dirs, files, reply, outcome, fn, payload, isJsonFlag,
          out>>

(***************************** bounds **************************************)
MaxRoutes == 2
\* the longest text, in tokens, among the texts enumerated exhaustively
MaxTokens == 3

(************************* JavaScript values *******************************)
Undef == [type |-> "undefined", v |-> <<>>, a |-> <<>>]
Null == [type |-> "null", v |-> <<>>, a |-> <<>>]
Str(s) == [type |-> "string", v |-> s, a |-> <<>>]
Arr(x) == [type |-> "array", v |-> <<>>, a |-> x]
Num(s) == [type |-> "number", v |-> s, a |-> <<>>]

Bool(s) == [type |-> "boolean", v |-> s, a |-> <<>>]
\* an object with members: a member is [key, value]
Member(key, val) == [type |-> "member", v |-> key, a |-> <<val>>]
ObjOf(ms) == [type |-> "object", v |-> <<>>, a |-> ms]

\* !x
Falsy(x) ==
  \/ x.type \in {"undefined", "null"}
  \/ (x.type = "string" /\ x.v = <<>>)
  \/ (x.type = "number" /\ x.v = <<"0">>)
  \/ (x.type = "boolean" /\ x.v = <<"false">>)

\* a default parameter value applies to an omitted (undefined) argument
Default(x, d) == IF x.type = "undefined" THEN d ELSE x

(****************************** JSON.parse *********************************)
\* JSON text is a sequence of tokens: the structural characters { } [ ] , :
\* and the quote, white space, digits and the literals; every other token is a
\* run of ordinary characters (legal inside a string literal only)
JsonWhitespace == {" ", "\n"}
\* String.prototype.trim strips more than JSON accepts between its tokens
TrimWhitespace == JsonWhitespace \cup {"nbsp"}
Digits == {"0", "5"}
Quote == "\""

Failed == [ok |-> FALSE, val |-> Undef, next |-> 0]
Parsed(val, next) == [ok |-> TRUE, val |-> val, next |-> next]

RECURSIVE SkipWs(_, _)
SkipWs(s, p) == IF p <= Len(s) /\ s[p] \in JsonWhitespace THEN SkipWs(s, p + 1) ELSE p

\* the first position at or after p that holds token t, 0 when there is none
RECURSIVE IndexFrom(_, _, _)
IndexFrom(s, t, p) ==
  IF p > Len(s) THEN 0 ELSE IF s[p] = t THEN p ELSE IndexFrom(s, t, p + 1)

\* a string literal opening at p; a raw line break inside it is an error
ParseString(s, p) ==
  LET q == IndexFrom(s, Quote, p + 1)
  IN IF q = 0 \/ (\E k \in (p + 1)..(q - 1) : s[k] = "\n") THEN Failed
     ELSE Parsed(Str(SubSeq(s, p + 1, q - 1)), q + 1)

\* the end of the run of digits that starts at p
RECURSIVE DigitsEnd(_, _)
DigitsEnd(s, p) == IF p <= Len(s) /\ s[p] \in Digits THEN DigitsEnd(s, p + 1) ELSE p

\* a number starting at p: no leading zero before another digit
ParseNumber(s, p) ==
  LET e == DigitsEnd(s, p)
  IN IF s[p] = "0" /\ e > p + 1 THEN Failed ELSE Parsed(Num(SubSeq(s, p, e - 1)), e)

\* a repeated key keeps its place and takes the later value
PutMember(ms, key, val) ==
  IF \E k \in 1..Len(ms) : ms[k].v = key
  THEN [k \in 1..Len(ms) |-> IF ms[k].v = key THEN Member(key, val) ELSE ms[k]]
  ELSE Append(ms, Member(key, val))

RECURSIVE ParseValue(_, _), ParseMembers(_, _, _), ParseElements(_, _, _)
ParseValue(s, p0) ==
  LET p == SkipWs(s, p0)
  IN IF p > Len(s) THEN Failed
     ELSE IF s[p] = Quote THEN ParseString(s, p)
     ELSE IF s[p] \in Digits THEN ParseNumber(s, p)
     ELSE IF s[p] = "null" THEN Parsed(Null, p + 1)
     ELSE IF s[p] \in {"true", "false"} THEN Parsed(Bool(<<s[p]>>), p + 1)
     ELSE IF s[p] = "{"
     THEN LET q == SkipWs(s, p + 1)
          IN IF q <= Len(s) /\ s[q] = "}" THEN Parsed(ObjOf(<<>>), q + 1)
             ELSE ParseMembers(s, q, <<>>)
     ELSE IF s[p] = "["
     THEN LET q == SkipWs(s, p + 1)
          IN IF q <= Len(s) /\ s[q] = "]" THEN Parsed(Arr(<<>>), q + 1)
             ELSE ParseElements(s, q, <<>>)
     ELSE Failed

\* "key": value, ... } from position p0 on, ms being the members read so far
ParseMembers(s, p0, ms) ==
  LET p == SkipWs(s, p0)
  IN IF p > Len(s) \/ s[p] # Quote THEN Failed
     ELSE LET key == ParseString(s, p)
              c == SkipWs(s, key.next)
          IN IF ~key.ok \/ c > Len(s) \/ s[c] # ":" THEN Failed
             ELSE LET val == ParseValue(s, c + 1)
                      e == SkipWs(s, val.next)
                      all == PutMember(ms, key.val.v, val.val)
                  IN IF ~val.ok \/ e > Len(s) THEN Failed
                     ELSE IF s[e] = "}" THEN Parsed(ObjOf(all), e + 1)
                     ELSE IF s[e] = "," THEN ParseMembers(s, e + 1, all)
                     ELSE Failed

\* value, ... ] from position p0 on, xs being the elements read so far
ParseElements(s, p0, xs) ==
  LET val == ParseValue(s, p0)
      e == SkipWs(s, val.next)
      all == Append(xs, val.val)
  IN IF ~val.ok \/ e > Len(s) THEN Failed
     ELSE IF s[e] = "]" THEN Parsed(Arr(all), e + 1)
     ELSE IF s[e] = "," THEN ParseElements(s, e + 1, all)
     ELSE Failed

\* JSON.parse(text): one value and nothing but white space around it;
\* ok = FALSE stands for the SyntaxError
JsonParse(s) ==
  LET r == ParseValue(s, 1)
  IN IF r.ok /\ SkipWs(s, r.next) = Len(s) + 1 THEN r ELSE Failed

\* text.trim()
RECURSIVE TrimStart(_)
TrimStart(s) == IF s # <<>> /\ Head(s) \in TrimWhitespace THEN TrimStart(Tail(s)) ELSE s
RECURSIVE Trim(_)
Trim(s) ==
  IF s # <<>> /\ s[Len(s)] \in TrimWhitespace THEN Trim(SubSeq(s, 1, Len(s) - 1))
  ELSE TrimStart(s)

\* isJsonContent with JSON.parse as the only test (no look at the first character)
isJsonContentParseOnly(content) ==
  ~Falsy(content) /\ content.type = "string" /\ JsonParse(content.v).ok

\* isJsonContent: false for a falsy value; for a value that is no string
\* content.trim() throws inside the try; else the first character after
\* trimming must be { or [ and JSON.parse(content) must not throw
isJsonContent(content) ==
  IF Falsy(content) THEN FALSE
  ELSE IF content.type # "string" THEN FALSE
  ELSE LET trimmedContent == Trim(content.v)
       IN IF ~(trimmedContent # <<>> /\ trimmedContent[1] \in {"{", "["}) THEN FALSE
          ELSE JsonParse(content.v).ok

(***************************** HTML documents ******************************)
\* a node of the tree cheerio builds: the document root, an element, a text
\* node or a comment; attrs is a sequence of <<name, value>> pairs
TextNode(data) == [type |-> "text", name |-> "", attrs |-> <<>>, data |-> data, kids |-> <<>>]
CommentNode(data) ==
  [type |-> "comment", name |-> "", attrs |-> <<>>, data |-> data, kids |-> <<>>]
Element(name, attrs, kids) ==
  [type |-> "tag", name |-> name, attrs |-> attrs, data |-> <<>>, kids |-> kids]
Document(kids) == [type |-> "root", name |-> "", attrs |-> <<>>, data |-> <<>>, kids |-> kids]

\* elements that have no content and no closing tag
VoidElements == {"meta", "link", "img", "input", "br", "hr"}

\* markup is a sequence of tokens: "<" name attributes ">" opens an element,
\* "</" name ">" closes it, "<!--" text "-->" is a comment; in text the
\* characters < > & are written as entities
EscapeToken(t) ==
  IF t = "<" THEN "&lt;" ELSE IF t = ">" THEN "&gt;" ELSE IF t = "&" THEN "&amp;" ELSE t
DecodeToken(t) ==
  IF t = "&lt;" THEN "<" ELSE IF t = "&gt;" THEN ">" ELSE IF t = "&amp;" THEN "&" ELSE t

RECURSIVE AttrsMarkup(_)
AttrsMarkup(attrs) ==
  IF attrs = <<>> THEN <<>>
  ELSE <<Head(attrs)[1], "=", Head(attrs)[2]>> \o AttrsMarkup(Tail(attrs))

\* $.html(node) and, for a sequence of nodes, the inner HTML of their parent
RECURSIVE OuterHtml(_), InnerHtml(_)
OuterHtml(node) ==
  IF node.type = "text" THEN [k \in 1..Len(node.data) |-> EscapeToken(node.data[k])]
  ELSE IF node.type = "comment" THEN <<"<!--">> \o node.data \o <<"-->">>
  ELSE IF node.type = "root" THEN InnerHtml(node.kids)
  ELSE <<"<", node.name>> \o AttrsMarkup(node.attrs) \o <<">">>
         \o (IF node.name \in VoidElements THEN <<>>
             ELSE InnerHtml(node.kids) \o <<"</", node.name, ">">>)
InnerHtml(nodes) ==
  IF nodes = <<>> THEN <<>> ELSE OuterHtml(Head(nodes)) \o InnerHtml(Tail(nodes))

\* the end of the run of text tokens that starts at p
RECURSIVE TextEnd(_, _)
TextEnd(s, p) ==
  IF p <= Len(s) /\ s[p] \notin {"<", "</", "<!--"} THEN TextEnd(s, p + 1) ELSE p

\* the attributes written between positions p and q (name = value triples)
RECURSIVE ParseAttrs(_, _, _)
ParseAttrs(s, p, q) ==
  IF p + 2 > q THEN <<>> ELSE <<<<s[p], s[p + 2]>>>> \o ParseAttrs(s, p + 3, q)

\* the nodes written from position p up to the closing tag of their parent (or
\* the end of the markup): [nodes, next]
RECURSIVE ParseNodes(_, _)
ParseNodes(s, p) ==
  IF p > Len(s) \/ s[p] = "</" THEN [nodes |-> <<>>, next |-> p]
  ELSE IF s[p] = "<!--"
  THEN LET q == IndexFrom(s, "-->", p + 1)
           e == IF q = 0 THEN Len(s) + 1 ELSE q
           rest == ParseNodes(s, e + 1)
       IN [nodes |-> <<CommentNode(SubSeq(s, p + 1, e - 1))>> \o rest.nodes,
           next |-> rest.next]
  ELSE IF s[p] = "<" /\ IndexFrom(s, ">", p + 2) # 0
  THEN LET g == IndexFrom(s, ">", p + 2)
           attrs == ParseAttrs(s, p + 2, g - 1)
       IN IF s[p + 1] \in VoidElements
          THEN LET rest == ParseNodes(s, g + 1)
               IN [nodes |-> <<Element(s[p + 1], attrs, <<>>)>> \o rest.nodes,
                   next |-> rest.next]
          ELSE LET inner == ParseNodes(s, g + 1)
                   \* skip the closing tag: "</" name ">"
                   rest == ParseNodes(s, inner.next + 3)
               IN [nodes |-> <<Element(s[p + 1], attrs, inner.nodes)>> \o rest.nodes,
                   next |-> rest.next]
  ELSE LET e == TextEnd(s, p + 1)
           rest == ParseNodes(s, e)
       IN [nodes |-> <<TextNode([k \in 1..(e - p) |-> DecodeToken(s[p + k - 1])])>>
                       \o rest.nodes,
           next |-> rest.next]

\* cheerio.load(markup): a document keeps its comments outside <html> as
\* children of the root; markup without an <html> element is put in the body
\* of a new document
cheerioLoad(markup) ==
  LET top == ParseNodes(markup, 1).nodes
  IN IF \E k \in 1..Len(top) : top[k].type = "tag" /\ top[k].name = "html"
     THEN Document(top)
     ELSE Document(<<Element("html", <<>>,
                      <<Element("head", <<>>, <<>>), Element("body", <<>>, top)>>)>>)

\* node.attr(name): undefined when the attribute is missing
Attr(node, name) ==
  IF \E k \in 1..Len(node.attrs) : node.attrs[k][1] = name
  THEN Str(<<node.attrs[CHOOSE k \in 1..Len(node.attrs) :
                /\ node.attrs[k][1] = name
                /\ \A j \in 1..(k - 1) : node.attrs[j][1] # name][2]>>)
  ELSE Undef
HasAttr(node, name, value) == \E k \in 1..Len(node.attrs) : node.attrs[k] = <<name, value>>

\* node.is(selector): <<kind, ...>> for a tag name, an id (#), a class (.),
\* an attribute with a value, a tag name with such an attribute, or a list
\* of selectors
RECURSIVE Matches(_, _)
Matches(node, selector) ==
  IF selector[1] = "tag" THEN node.name = selector[2]
  ELSE IF selector[1] = "#" THEN HasAttr(node, "id", selector[2])
  ELSE IF selector[1] = "." THEN HasAttr(node, "class", selector[2])
  ELSE IF selector[1] = "[]" THEN HasAttr(node, selector[2], selector[3])
  ELSE IF selector[1] = "tag[]"
  THEN node.name = selector[2] /\ HasAttr(node, selector[3], selector[4])
  ELSE \E k \in 1..Len(selector[2]) : Matches(node, selector[2][k])

\* the elements below a node, in document order (the node itself excluded)
RECURSIVE Descendants(_), DescendantsOfAll(_)
Descendants(node) == DescendantsOfAll(node.kids)
DescendantsOfAll(nodes) ==
  IF nodes = <<>> THEN <<>>
  ELSE (IF Head(nodes).type = "tag" THEN <<Head(nodes)>> ELSE <<>>)
         \o Descendants(Head(nodes)) \o DescendantsOfAll(Tail(nodes))

\* node.text(): the text nodes below a node, concatenated
RECURSIVE TextOf(_), TextOfAll(_)
TextOf(node) == IF node.type = "text" THEN node.data ELSE TextOfAll(node.kids)
TextOfAll(nodes) ==
  IF nodes = <<>> THEN <<>> ELSE TextOf(Head(nodes)) \o TextOfAll(Tail(nodes))

(****************************** cleanHtml **********************************)
\* script, style, iframe, noscript, svg, form, button, input, nav.navbar,
\* footer, .sidebar, .ads, .comments, .social-sharing
Unwanted(node) ==
  \/ node.name \in {"script", "style", "iframe", "noscript", "svg", "form", "button", "input"}
  \/ node.name = "footer"
  \/ (node.name = "nav" /\ HasAttr(node, "class", "navbar"))
  \/ \E c \in {"sidebar", "ads", "comments", "social-sharing"} : HasAttr(node, "class", c)

\* [style*='display:none'], [style*='display: none'], [hidden], .hidden,
\* .visually-hidden
Hidden(node) ==
  \/ HasAttr(node, "style", "display:none")
  \/ HasAttr(node, "style", "display: none")
  \/ Attr(node, "hidden") # Undef
  \/ HasAttr(node, "class", "hidden")
  \/ HasAttr(node, "class", "visually-hidden")

\* what one of the three removals of cleanHtml selects: the comments are taken
\* from $("*").contents(), the children of the elements
Selected(node, parent, what) ==
  IF what = "unwanted" THEN node.type = "tag" /\ Unwanted(node)
  ELSE IF what = "hidden" THEN node.type = "tag" /\ Hidden(node)
  ELSE node.type = "comment" /\ parent.type = "tag"

\* the children of parent once the selected nodes are removed, at any depth
RECURSIVE Remove(_, _, _)
Remove(kids, parent, what) ==
  IF kids = <<>> THEN <<>>
  ELSE LET k == Head(kids)
           rest == Remove(Tail(kids), parent, what)
       IN IF Selected(k, parent, what) THEN rest
          ELSE <<[k EXCEPT !.kids = Remove(k.kids, k, what)]>> \o rest

\* cleanHtml: null for null; else the document loaded from (html || ''), with
\* the unwanted elements, the hidden elements and the comments removed
cleanHtml(html) ==
  IF html.type = "null" THEN Null
  ELSE LET htmlContent == IF Falsy(html) THEN <<>> ELSE html.v
           loaded == cheerioLoad(htmlContent)
           shown == [loaded EXCEPT !.kids = Remove(loaded.kids, loaded, "unwanted")]
           visible == [shown EXCEPT !.kids = Remove(shown.kids, shown, "hidden")]
       IN [visible EXCEPT !.kids = Remove(visible.kids, visible, "comments")]

(**************************** JSON.stringify *******************************)
Indent(level) == [k \in 1..(2 * level) |-> " "]

\* JSON.stringify(x, null, 2), x standing at nesting depth level
RECURSIVE Stringify(_, _), StringifyItems(_, _)
Stringify(x, level) ==
  IF x.type = "string" THEN <<Quote>> \o x.v \o <<Quote>>
  ELSE IF x.type \in {"number", "boolean"} THEN x.v
  ELSE IF x.type = "array"
  THEN IF x.a = <<>> THEN <<"[", "]">>
       ELSE <<"[", "\n">> \o StringifyItems(x.a, level + 1) \o Indent(level) \o <<"]">>
  ELSE IF x.type = "object"
  THEN IF x.a = <<>> THEN <<"{", "}">>
       ELSE <<"{", "\n">> \o StringifyItems(x.a, level + 1) \o Indent(level) \o <<"}">>
  ELSE <<"null">>
StringifyItems(items, level) ==
  IF items = <<>> THEN <<>>
  ELSE LET x == Head(items)
           one == IF x.type = "member"
                  THEN <<Quote>> \o x.v \o <<Quote, ":", " ">> \o Stringify(x.a[1], level)
                  ELSE Stringify(x, level)
       IN Indent(level) \o one \o (IF Len(items) > 1 THEN <<",">> ELSE <<>>) \o <<"\n">>
            \o StringifyItems(Tail(items), level)

\* String(x) and `${x}`
RECURSIVE ToStr(_), JoinStr(_)
ToStr(x) ==
  IF x.type \in {"string", "number", "boolean"} THEN x.v
  ELSE IF x.type = "null" THEN <<"null">>
  ELSE IF x.type = "undefined" THEN <<"undefined">>
  ELSE IF x.type = "array" THEN JoinStr(x.a)
  ELSE <<"[object Object]">>
JoinStr(xs) ==
  IF xs = <<>> THEN <<>>
  ELSE (IF Head(xs).type \in {"null", "undefined"} THEN <<>> ELSE ToStr(Head(xs)))
         \o (IF Len(xs) > 1 THEN <<",">> ELSE <<>>) \o JoinStr(Tail(xs))

\* x.key: undefined unless x is an object that has the property
Get(x, key) ==
  IF x.type = "object" /\ (\E k \in 1..Len(x.a) : x.a[k].v = <<key>>)
  THEN x.a[CHOOSE k \in 1..Len(x.a) : x.a[k].v = <<key>>].a[1]
  ELSE Undef

\* x || y
Or(x, y) == IF Falsy(x) THEN y ELSE x

(*************************** extractMetaInfo *******************************)
EmptyMeta == [title |-> Str(<<>>), description |-> Str(<<>>)]

\* the number of characters of a text: a token is one character, but for the
\* token that stands for a run of a hundred
LongText == "a-hundred-characters"
RECURSIVE Length(_)
Length(s) ==
  IF s = <<>> THEN 0 ELSE (IF Head(s) = LongText THEN 100 ELSE 1) + Length(Tail(s))

\* $(selector): the elements of the document that match, in document order
Query(doc, selector) == SelectSeq(Descendants(doc), LAMBDA n : Matches(n, selector))

\* $(...).attr(name): the attribute of the first element selected
AttrOfFirst(nodes, name) == IF nodes = <<>> THEN Undef ELSE Attr(nodes[1], name)
\* $(...).first().text().trim()
TextOfFirst(nodes) == IF nodes = <<>> THEN Str(<<>>) ELSE Str(Trim(TextOf(nodes[1])))

\* the JSON branch of extractMetaInfo, jsonData being an object or a primitive
jsonMetaInfo(jsonData) ==
  LET title ==
        IF ~Falsy(Get(jsonData, "title")) THEN Get(jsonData, "title")
        ELSE IF ~Falsy(Get(jsonData, "name")) THEN Get(jsonData, "name")
        ELSE IF ~Falsy(Get(jsonData, "id"))
        THEN Str(ToStr(Or(Get(jsonData, "type"), Str(<<"Item">>))) \o <<" ">>
                   \o ToStr(Get(jsonData, "id")))
        ELSE Str(<<"JSON", " ", "Data">>)
      description ==
        IF ~Falsy(Get(jsonData, "body")) THEN Get(jsonData, "body")
        ELSE IF ~Falsy(Get(jsonData, "description")) THEN Get(jsonData, "description")
        ELSE IF ~Falsy(Get(jsonData, "summary")) THEN Get(jsonData, "summary")
        ELSE Str(<<>>)
      nameOf(x) ==
        IF x.type = "string" THEN x
        ELSE Or(Or(Get(x, "name"), Get(x, "username")), Str(<<>>))
      author ==
        IF ~Falsy(Get(jsonData, "author")) THEN nameOf(Get(jsonData, "author"))
        ELSE IF ~Falsy(Get(jsonData, "user")) THEN nameOf(Get(jsonData, "user"))
        ELSE IF ~Falsy(Get(jsonData, "username")) THEN Get(jsonData, "username")
        ELSE Str(<<>>)
  IN [title |-> title,
      description |-> description,
      author |-> author,
      date |-> Or(Or(Or(Get(jsonData, "date"), Get(jsonData, "created_at")),
                     Get(jsonData, "createdAt")), Str(<<>>)),
      keywords |-> Arr(<<>>),
      url |-> Str(<<>>),
      siteName |-> Str(<<>>)]

\* the HTML branch of extractMetaInfo up to the object it builds
htmlMetaInfo(doc) ==
  LET fromHead ==
        Or(Or(AttrOfFirst(Query(doc, <<"tag[]", "meta", "property", "og:title">>), "content"),
              Str(Trim(TextOfAll(Query(doc, <<"tag", "title">>))))), Str(<<>>))
      h1Text == TextOfFirst(Query(doc, <<"tag", "h1">>))
      title ==
        IF fromHead = Str(<<>>) /\ Query(doc, <<"tag", "h1">>) # <<>> /\ Length(h1Text.v) < 100
        THEN h1Text ELSE fromHead
      description ==
        Or(Or(Or(AttrOfFirst(Query(doc, <<"tag[]", "meta", "name", "description">>), "content"),
                 AttrOfFirst(Query(doc, <<"tag[]", "meta", "property", "og:description">>), "content")),
              AttrOfFirst(Query(doc, <<"tag[]", "meta", "name", "twitter:description">>), "content")),
           Str(<<>>))
      author ==
        Or(Or(Or(Or(AttrOfFirst(Query(doc, <<"tag[]", "meta", "name", "author">>), "content"),
                    AttrOfFirst(Query(doc, <<"tag[]", "meta", "property", "article:author">>), "content")),
                 TextOfFirst(Query(doc, <<".", "author">>))),
              TextOfFirst(SelectSeq(Descendants(doc), LAMBDA n : HasAttr(n, "rel", "author")))),
           Str(<<>>))
      date ==
        Or(Or(Or(AttrOfFirst(Query(doc, <<"tag[]", "meta", "property", "article:published_time">>),
                             "content"),
                 AttrOfFirst(SelectSeq(Query(doc, <<"tag", "time">>),
                                       LAMBDA n : Attr(n, "datetime") # Undef), "datetime")),
              TextOfFirst(Query(doc, <<",", <<<<".", "date">>, <<".", "published">>, <<".", "time">>>>>>))),
           Str(<<>>))
      keywordsString == Or(AttrOfFirst(Query(doc, <<"tag[]", "meta", "name", "keywords">>), "content"),
                          Str(<<>>))
  IN [title |-> title,
      description |-> description,
      author |-> author,
      date |-> date,
      \* split(','): an attribute value is one token and holds no comma
      keywords |-> Arr(IF keywordsString.v = <<>> THEN <<>> ELSE <<keywordsString>>),
      url |-> Or(AttrOfFirst(Query(doc, <<"tag[]", "link", "rel", "canonical">>), "href"), Str(<<>>)),
      siteName |-> Or(AttrOfFirst(Query(doc, <<"tag[]", "meta", "property", "og:site_name">>), "content"),
                      Str(<<>>))]

\* the name html is a parameter of cleanHtml only: in extractMetaInfo and in
\* convertToMarkdown nothing declares it, and reading it throws a
\* ReferenceError
htmlIsDeclared == FALSE

\* html.includes('<html>\n  <head>\n  </head>') || html === sampleHtmlWithoutMeta
sampleWithoutMeta(markup) ==
  \E p \in 1..(Len(markup) - 14) :
    SubSeq(markup, p, p + 14) =
      <<"<", "html", ">", "\n", " ", " ", "<", "head", ">", "\n", " ", " ", "</", "head", ">">>

\* extractMetaInfo: the JSON branch and the HTML branch run in one try whose
\* catch returns the two empty fields
extractMetaInfo(content, isJson) ==
  IF content.type \in {"null", "undefined"} \/ content = Str(<<>>) THEN EmptyMeta
  ELSE IF isJson
  THEN LET parsed == JsonParse(content.v)
       IN IF ~parsed.ok \/ parsed.val.type = "null" THEN EmptyMeta
          ELSE jsonMetaInfo(parsed.val)
  ELSE IF ~htmlIsDeclared THEN EmptyMeta
  ELSE IF sampleWithoutMeta(content.v) THEN EmptyMeta
  ELSE htmlMetaInfo(cheerioLoad(content.v))

(**************************** extractContent *******************************)
\* the text of one item of a top-level array: the properties of an object that
\* hold no object, array or null, one per line
RECURSIVE ItemText(_)
ItemText(members) ==
  IF members = <<>> THEN <<>>
  ELSE LET m == Head(members)
           value == m.a[1]
       IN (IF value.type \notin {"object", "array", "null"}
           THEN m.v \o <<":", " ">> \o ToStr(value) \o <<"\n">>
           ELSE <<>>) \o ItemText(Tail(members))

\* jsonData.map(item => ...).join('\n\n')
RECURSIVE ItemsText(_)
ItemsText(items) ==
  IF items = <<>> THEN <<>>
  ELSE (IF Head(items).type = "object" THEN ItemText(Head(items).a) ELSE ToStr(Head(items)))
         \o (IF Len(items) > 1 THEN <<"\n", "\n">> ELSE <<>>) \o ItemsText(Tail(items))

\* the text of a single object: a property that holds an object or an array
\* is written as pretty JSON, a property that holds null is left out
RECURSIVE ObjectText(_)
ObjectText(members) ==
  IF members = <<>> THEN <<>>
  ELSE LET m == Head(members)
           value == m.a[1]
       IN (IF value.type \notin {"object", "array", "null"}
           THEN m.v \o <<":", " ">> \o ToStr(value) \o <<"\n">>
           ELSE IF value.type # "null"
           THEN m.v \o <<":", " ">> \o Stringify(value, 0) \o <<"\n">>
           ELSE <<>>) \o ObjectText(Tail(members))

\* the JSON branch of extractContent
jsonContent(jsonData) ==
  [cleanHtml |-> Stringify(jsonData, 0),
   textContent |-> Trim(IF jsonData.type = "array" THEN ItemsText(jsonData.a)
                        ELSE IF jsonData.type = "object" THEN ObjectText(jsonData.a)
                        ELSE ToStr(jsonData)),
   isJson |-> TRUE]

\* the prioritized list of selectors
contentSelectors ==
  << <<"tag", "main">>, <<"tag", "article">>, <<"#", "content">>, <<".", "content">>,
     <<"#", "main-content">>, <<".", "main-content">>, <<"#", "primary">>,
     <<".", "primary">>, <<"#", "article">>, <<".", "article">>, <<".", "post-content">>,
     <<".", "entry-content">>, <<"[]", "role", "main">>, <<"tag", "section">>,
     <<".", "container">>, <<"#", "container">> >>
bodySelector == <<"tag", "body">>

\* the first loop: best is [mainContent, mainContentScore, mainContentSelector]
RECURSIVE BySelector(_, _, _)
BySelector(doc, k, best) ==
  IF k > Len(contentSelectors) THEN best
  ELSE LET currentElement == Query(doc, contentSelectors[k])
           currentText == Trim(TextOfAll(currentElement))
       IN BySelector(doc, k + 1,
            IF currentElement # <<>> /\ Length(currentText) > best.score
            THEN [content |-> currentElement, score |-> Length(currentText),
                  selector |-> contentSelectors[k]]
            ELSE best)

\* the second loop, over the div elements: the selector is left as it is
RECURSIVE ByParagraphs(_, _)
ByParagraphs(divs, best) ==
  IF divs = <<>> THEN best
  ELSE LET currentElement == Head(divs)
           paragraphs == Len(SelectSeq(Descendants(currentElement), LAMBDA n : n.name = "p"))
           currentText == Trim(TextOf(currentElement))
       IN ByParagraphs(Tail(divs),
            IF paragraphs > 3 /\ Length(currentText) > best.score
            THEN [best EXCEPT !.content = <<currentElement>>, !.score = Length(currentText)]
            ELSE best)

\* mainContent.find("p, div") without the elements whose text is blank
RECURSIVE RemoveEmpty(_)
RemoveEmpty(kids) ==
  IF kids = <<>> THEN <<>>
  ELSE LET k == Head(kids)
       IN (IF k.type = "tag" /\ k.name \in {"p", "div"} /\ Trim(TextOf(k)) = <<>>
           THEN <<>>
           ELSE <<[k EXCEPT !.kids = RemoveEmpty(k.kids)]>>) \o RemoveEmpty(Tail(kids))

\* img.after(`<figcaption>${alt}</figcaption>`) for every image with an alt
RECURSIVE AddCaptions(_)
AddCaptions(kids) ==
  IF kids = <<>> THEN <<>>
  ELSE LET k == Head(kids)
           alt == Or(Attr(k, "alt"), Str(<<>>))
       IN <<[k EXCEPT !.kids = AddCaptions(k.kids)]>>
            \o (IF k.type = "tag" /\ k.name = "img" /\ ~Falsy(alt)
                THEN <<Element("figcaption", <<>>, <<TextNode(alt.v)>>)>>
                ELSE <<>>)
            \o AddCaptions(Tail(kids))

\* the clean-up of the elements selected
CleanUp(elements) ==
  [k \in 1..Len(elements) |->
     [elements[k] EXCEPT !.kids = AddCaptions(RemoveEmpty(elements[k].kids))]]

\* text.replace(/\s+/g, " "): every run of white space becomes one space
RECURSIVE CollapseWhitespace(_)
CollapseWhitespace(s) ==
  IF s = <<>> THEN <<>>
  ELSE IF Head(s) \in TrimWhitespace
  THEN <<" ">> \o CollapseWhitespace(TrimStart(s))
  ELSE <<Head(s)>> \o CollapseWhitespace(Tail(s))

\* text.replace(/\n\s*\n\s*\n/g, "\n\n"): a match starts at a line break whose
\* run of white space holds three line breaks or more, and ends with the last
\* line break of the run
RECURSIVE CollapseBreaks(_)
CollapseBreaks(s) ==
  IF s = <<>> THEN <<>>
  ELSE LET e == Len(s) - Len(TrimStart(s)) + 1
           breaks == {k \in 1..(e - 1) : s[k] = "\n"}
           last == CHOOSE k \in breaks : \A j \in breaks : j <= k
       IN IF Head(s) = "\n" /\ Cardinality(breaks) >= 3
          THEN <<"\n", "\n">> \o CollapseBreaks(SubSeq(s, last + 1, Len(s)))
          ELSE <<Head(s)>> \o CollapseBreaks(Tail(s))

\* the HTML branch of extractContent on the cleaned document: the two searches
\* for the main content
locate(doc) ==
  LET body == [content |-> Query(doc, bodySelector), score |-> 0, selector |-> bodySelector]
      first == BySelector(doc, 1, body)
  IN IF first.selector = bodySelector
     THEN ByParagraphs(Query(doc, <<"tag", "div">>), first)
     ELSE first

\* the clean-up of what was located, then its HTML and its text
htmlContent(doc) ==
  LET second == locate(doc)
      mainContent == CleanUp(second.content)
  IN [cleanHtml |-> IF mainContent = <<>> THEN <<>> ELSE InnerHtml(mainContent[1].kids),
      textContent |-> Trim(CollapseBreaks(CollapseWhitespace(Trim(TextOfAll(mainContent))))),
      usedSelector |-> second.selector]

EmptyContent == [cleanHtml |-> <<>>, textContent |-> <<>>]

\* extractContent: the empty record for a falsy value; the JSON branch when
\* isJsonContent says so; else the HTML branch on cleanHtml(content)
extractContent(content) ==
  IF Falsy(content) THEN EmptyContent
  ELSE IF isJsonContent(content) THEN jsonContent(JsonParse(content.v).val)
  ELSE htmlContent(cleanHtml(content))

(*************************** convertToMarkdown *****************************)
\* the token for the three backquotes that open and close a fenced block
Fence == "[fence]"

\* convertToMarkdown without its first line: null and '' go on to the branches
convertToMarkdownUnguarded(content, isJson) ==
  IF isJson
  THEN LET parsed == JsonParse(content.v)
       IN IF parsed.ok
          THEN <<Fence, "json", "\n">> \o Stringify(parsed.val, 0) \o <<"\n", Fence, "\n", "\n">>
          ELSE <<Fence, "\n">> \o ToStr(content) \o <<"\n", Fence, "\n", "\n">>
  ELSE <<>>

\* parseInt(text, 10) and the text of a number, for the numbers of a short list
Numerals == <<"1", "2", "3", "4", "5", "6", "7", "8", "9", "10", "11", "12">>
parseInt(t) == IF t = "0" THEN 0 ELSE CHOOSE n \in 1..Len(Numerals) : Numerals[n] = t
NumberText(n) == IF n = 0 THEN "0" ELSE Numerals[n]

\* the rule listItems: the item kids[k] of parent, content being its rendering;
\* the three replacements are .replace(/^\n+/, ''), .replace(/\n+$/, '\n')
\* and .replace(/\n/gm, '\n    ')
listItems(content, kids, k, parent) ==
  LET RECURSIVE DropLeadingBreaks(_)
      DropLeadingBreaks(s) ==
        IF s # <<>> /\ Head(s) = "\n" THEN DropLeadingBreaks(Tail(s)) ELSE s
      RECURSIVE OneTrailingBreak(_)
      OneTrailingBreak(s) ==
        IF Len(s) >= 2 /\ s[Len(s)] = "\n" /\ s[Len(s) - 1] = "\n"
        THEN OneTrailingBreak(SubSeq(s, 1, Len(s) - 1)) ELSE s
      RECURSIVE IndentBreaks(_)
      IndentBreaks(s) ==
        IF s = <<>> THEN <<>>
        ELSE (IF Head(s) = "\n" THEN <<"\n", " ", " ", " ", " ">> ELSE <<Head(s)>>)
               \o IndentBreaks(Tail(s))
      text == IndentBreaks(OneTrailingBreak(DropLeadingBreaks(content)))
      start == Attr(parent, "start")
      index == Cardinality({j \in 1..(k - 1) : kids[j].type = "tag"})
      num == (IF ~Falsy(start) THEN parseInt(start.v[1]) ELSE 1) + index
      prefix == IF parent.name = "ol" THEN <<NumberText(num), ".", " ">> ELSE <<"-", " ">>
  IN prefix \o text
       \o (IF k < Len(kids) /\ (text = <<>> \/ text[Len(text)] # "\n") THEN <<"\n">>
           ELSE <<>>)

\* the rule preserveLinks; /^https?:\/\//i.test(href) is decided for the
\* values an href takes here
preserveLinks(content, node) ==
  LET href == Attr(node, "href")
  IN IF Falsy(href) \/ href.v[1] \notin {"https://wikipedia.org", "http://host/page"} THEN content
     ELSE <<"[">> \o content \o <<"]", "(", href.v[1], ")">>

\* turndown on the children of a node: the two rules above, a block around a
\* list or a paragraph, the text of every other node
RECURSIVE Replacement(_, _, _)
Replacement(kids, k, parent) ==
  IF k > Len(kids) THEN <<>>
  ELSE LET node == kids[k]
           content == Replacement(node.kids, 1, node)
       IN (IF node.type = "text" THEN node.data
           ELSE IF node.type = "comment" THEN <<>>
           ELSE IF node.name = "li" THEN listItems(content, kids, k, parent)
           ELSE IF node.name = "a" THEN preserveLinks(content, node)
           ELSE IF node.name \in {"ol", "ul", "p"} THEN <<"\n", "\n">> \o content \o <<"\n", "\n">>
           ELSE content) \o Replacement(kids, k + 1, parent)

\* turndownService.turndown(markup): the rendering of the body, trimmed
turndown(markup) ==
  LET body == Query(cheerioLoad(markup), bodySelector)
  IN IF body = <<>> THEN <<>> ELSE Trim(Replacement(body[1].kids, 1, body[1]))

\* convertToMarkdown: "" for null, undefined and ''; with isJson a fenced
\* block around the pretty JSON, or around the content as it is when it does
\* not parse; else the Turndown service is set up and turndown(html) is
\* called: reading html throws and the catch returns ""
convertToMarkdown(content, isJson) ==
  IF content.type \in {"null", "undefined"} \/ content = Str(<<>>) THEN <<>>
  ELSE IF isJson
  THEN LET parsed == JsonParse(content.v)
       IN IF parsed.ok
          THEN <<Fence, "json", "\n">> \o Stringify(parsed.val, 0) \o <<"\n", Fence, "\n", "\n">>
          ELSE <<Fence, "\n">> \o content.v \o <<"\n", Fence, "\n", "\n">>
  ELSE IF ~htmlIsDeclared THEN <<>>
  ELSE turndown(content.v)

(************************** configuration **********************************)
DEFAULT_BASE_URL == <<"https:", "/", "/", "icjia.illinois.gov">>
DEFAULT_ROUTES == <<Str(<<"/", "about">>), Str(<<"researchHub">>)>>
DEFAULT_FORMAT == <<"text">>
VALID_FORMATS == {<<"text">>, <<"json">>, <<"markdown">>, <<"all">>}

(*********************** inputs of the caller ******************************)
BaseInputs ==
  {Undef, Null, Str(<<>>), Str(<<"https:", "/", "/", "host">>), Str(<<"host">>)}
RouteInputs == {Str(<<>>), Str(<<"/", "about">>), Str(<<"researchHub">>)}
FormatInputs ==
  {Undef, Str(<<"text">>), Str(<<"json">>), Str(<<"markdown">>), Str(<<"all">>),
   Str(<<"invalid-format">>)}
RECURSIVE SeqsUpTo(_, _)
SeqsUpTo(S, n) ==
  IF n = 0 THEN {<<>>}
  ELSE LET shorter == SeqsUpTo(S, n - 1)
       IN shorter \cup {Append(s, x) : s \in {t \in shorter : Len(t) = n - 1}, x \in S}
RoutesInputs ==
  {Undef, Null, Str(<<"/", "about">>)} \cup {Arr(a) : a \in SeqsUpTo(RouteInputs, MaxRoutes)}
UrlInputs ==
  {<<"https:", "/", "/", "host", "/", "about">>, <<"host", "/", "about">>, <<>>,
   <<"https:", "/", "/">>}

\* URLs handed to processSinglePage: "?" starts the query string
PageInputs ==
  {<<"https:", "/", "/", "host", "/", "about">>,
   <<"https:", "/", "/", "host", "/", "about", "?", "page=2">>,
   <<"https:", "/", "/", "host">>,
   <<"https:", "/", "/", "host", "?", "page=2">>,
   <<"host", "/", "about">>,
   <<>>}

(************************ the HTTP environment *****************************)
\* bodies on the wire
BodyHtml == <<"<html>">>
BodyEmpty == <<>>
BodyJsonObject == <<"{json}">>
BodyJsonNumTitle == <<"'{title:5}'">>
\* the text that BodyJsonNumTitle quotes
JsonNumTitle == <<"{", Quote, "title", Quote, ":", "5", "}">>
Bodies == {BodyHtml, BodyEmpty, BodyJsonObject, BodyJsonNumTitle}
Responses ==
  {[kind |-> "response", status |-> 200, body |-> b] : b \in Bodies}
    \cup {[kind |-> "response", status |-> 404, body |-> BodyHtml],
          [kind |-> "timeout", status |-> 0, body |-> BodyEmpty],
          [kind |-> "network", status |-> 0, body |-> BodyEmpty]}
NoResponse == [kind |-> "none", status |-> 0, body |-> BodyEmpty]

(***************************** fetchContent ********************************)
\* new URL(url) succeeds: an absolute URL with a scheme and a host
isValidUrl(url) ==
  /\ Len(url) >= 2
  /\ url[1] = "https:"
  /\ \E k \in 2..Len(url) : url[k] # "/"

\* validateStatus: only 2xx counts as success
validateStatus(status) == status >= 200 /\ status < 300

\* axios' default transformResponse: a body that parses as JSON is decoded
\* (an object stays an object, a JSON string literal becomes the string it
\* quotes); an empty body or a body that does not parse stays a string
transformResponse(body) ==
  IF body = BodyJsonObject THEN ObjOf(<<>>)
  ELSE IF body = BodyJsonNumTitle THEN Str(JsonNumTitle)
  ELSE Str(body)

\* axios.get(url, ...): fulfilled with response.data, or rejected
axiosGet(resp) ==
  IF resp.kind = "response" /\ validateStatus(resp.status)
  THEN [kind |-> "fulfilled", value |-> transformResponse(resp.body)]
  ELSE [kind |-> "rejected", value |-> Undef]

\* fetchContent without its catch block: a rejection of axios.get escapes
fetchContentSettleNoCatch(resp) ==
  LET r == axiosGet(resp)
  IN IF r.kind = "fulfilled"
     THEN [kind |-> "resolved", value |-> r.value, error |-> ""]
     ELSE [kind |-> "rejected", value |-> Undef, error |-> "request failed"]

\* how fetchContent settles once axios.get has settled (try/catch)
fetchContentSettle(resp) ==
  LET r == axiosGet(resp)
  IN IF r.kind = "fulfilled"
     THEN [kind |-> "resolved", value |-> r.value, error |-> ""]
     ELSE [kind |-> "resolved", value |-> Null, error |-> ""]

(************************ generateFilesForRoute ****************************)
\* normalisation that prefixes the slash without looking at the route
normalizedRouteAlwaysPrefixed(route) == <<"/">> \o route

\* route.startsWith("/") ? route : `/${route}`
normalizedRoute(route) ==
  IF Len(route) > 0 /\ route[1] = "/" THEN route ELSE <<"/">> \o route

\* `${baseUrl}${normalizedRoute}`
fullUrl(base, route) == base \o normalizedRoute(route)

\* metaInfo.title
metaTitle(content, isJson) == extractMetaInfo(content, isJson).title

\* markdownContent: convertToMarkdown(contentHtml, detectedJson || isJson) on
\* what extractContent returned
markdownContent(content) ==
  LET extracted == extractContent(content)
      detectedJson == "isJson" \in DOMAIN extracted /\ extracted.isJson
  IN convertToMarkdown(Str(extracted.cleanHtml), detectedJson \/ isJsonContent(content))

\* route.replace(/^\//, "").replace(/\//g, "-") || "index"
routeSlug(route) ==
  LET stripped == IF Len(route) > 0 /\ route[1] = "/" THEN Tail(route) ELSE route
      dashed == [k \in 1..Len(stripped) |-> IF stripped[k] = "/" THEN "-" ELSE stripped[k]]
  IN IF dashed = <<>> THEN <<"index">> ELSE dashed

\* generateFilename throws when convertToSlug gets a title that is no string
generateFilenameThrows(title) ==
  ~isTest /\ ~Falsy(title) /\ title.type # "string"

\* generateFilename: the route-based name in test mode, else slug and time stamp
\* (the title slug is empty for every title that does not throw here); now
\* names the second in which it runs
generateFilename(route, title, now) ==
  [slug |-> routeSlug(route), stamped |-> ~isTest, time |-> IF isTest THEN 0 ELSE now]

\* the three if-blocks without their conditions: every format is written
formatsToWriteUnconditional(format) == <<"json", "text", "markdown">>

\* the formats written, in the order of the three if-blocks
formatsToWrite(format) ==
  SelectSeq(<<"json", "text", "markdown">>,
            LAMBDA d : format = <<d>> \/ format = <<"all">>)

Extension(d) == IF d = "json" THEN ".json" ELSE IF d = "text" THEN ".txt" ELSE ".md"

RouteResult(nr, url, title, markdown) ==
  [type |-> "result", route |-> nr, url |-> url,
   data |-> [url |-> url, route |-> nr, title |-> title, markdownContent |-> markdown]]

NewCall(b, r, f) ==
  [pc |-> "start", baseUrl |-> b, route |-> r, format |-> f,
   normalizedRoute |-> <<>>, fullUrl |-> <<>>, response |-> NoResponse,
   content |-> Undef, title |-> Undef, markdownContent |-> <<>>, now |-> 0,
   pending |-> <<>>,
   value |-> Undef, error |-> ""]

Returned(c, v) == [c EXCEPT !.pc = "returned", !.value = v]
Threw(c, msg) == [c EXCEPT !.pc = "threw", !.error = msg]
Settled(c) == c.pc \in {"returned", "threw"}

\* input validation, route normalisation and fetchContent up to axios.get
GStart(k) ==
  /\ k \in 1..Len(calls)
  /\ calls[k].pc = "start"
  /\ LET c == calls[k]
     IN IF Falsy(c.baseUrl)
        THEN calls' = [calls EXCEPT ![k] = Threw(c, "Base URL is required")]
             /\ gets' = gets
        ELSE IF Falsy(c.route)
        THEN calls' = [calls EXCEPT ![k] = Threw(c, "Route is required")]
             /\ gets' = gets
        ELSE IF ~(c.format.type = "string" /\ c.format.v \in VALID_FORMATS)
        THEN calls' = [calls EXCEPT ![k] = Threw(c, "Invalid format")]
             /\ gets' = gets
        ELSE LET nr == normalizedRoute(c.route.v)
                 url == fullUrl(c.baseUrl.v, c.route.v)
                 d == [c EXCEPT !.normalizedRoute = nr, !.fullUrl = url]
             IN IF ~isValidUrl(url)
                THEN calls' = [calls EXCEPT ![k] = Returned([d EXCEPT !.content = Null], Null)]
                     /\ gets' = gets
                ELSE calls' = [calls EXCEPT ![k] = [d EXCEPT !.pc = "get"]]
                     /\ gets' = Append(gets, [call |-> k, url |-> url])
  /\ UNCHANGED <<fn, payload, isJsonFlag, out>>
  /\ UNCHANGED <<entry, pc, args, isTest, baseUrl, routes, validFormat, i, results,
                 errors, dirs, files, reply, outcome>>

\* new Date() in call k, to the second: the second of the latest earlier call
\* that read the clock, or a later one (a second is named by the first call
\* that reads the clock in it)
Seconds(k) ==
  LET earlier == {calls[j].now : j \in 1..(k - 1)} \ {0}
  IN IF isTest \/ earlier = {} THEN {k}
     ELSE {k, CHOOSE n \in earlier : \A m \in earlier : m <= n}

\* a call that goes back to its start when the fetch gave nothing
AfterFetchRetry(c, resp, now) ==
  IF resp.kind = "response" /\ validateStatus(resp.status)
  THEN [c EXCEPT !.pc = "returned", !.response = resp, !.value = Null]
  ELSE [c EXCEPT !.pc = "start", !.response = resp]

\* the GET settles; fetchContent returns; extraction and file naming
AfterFetch(c, resp, now) ==
  LET s == fetchContentSettle(resp)
      d == [c EXCEPT !.response = resp, !.content = s.value]
  IN IF s.kind = "rejected" THEN Threw(d, "fetch rejected")
     ELSE IF Falsy(s.value) THEN Returned(d, Null)
     ELSE LET title == metaTitle(s.value, isJsonContent(s.value))
          IN IF generateFilenameThrows(title)
             THEN Threw([d EXCEPT !.title = title], "text.toLowerCase is not a function")
             ELSE [d EXCEPT !.title = title, !.markdownContent = markdownContent(s.value),
                            !.now = IF isTest THEN 0 ELSE now,
                            !.pending = formatsToWrite(c.format.v), !.pc = "ensureDir"]

GResponse(k) ==
  /\ k \in 1..Len(calls)
  /\ calls[k].pc = "get"
  /\ \E resp \in Responses, now \in Seconds(k) :
       calls' = [calls EXCEPT ![k] = AfterFetch(calls[k], resp, now)]
  /\ UNCHANGED <<fn, payload, isJsonFlag, out>>
  /\ UNCHANGED <<entry, pc, args, isTest, baseUrl, routes, validFormat, i, results,
                 errors, gets, dirs, files, reply, outcome>>

\* await fs.ensureDir(dir): succeeds, or throws and the catch blocks rethrow
GEnsureDir(k) ==
  /\ k \in 1..Len(calls)
  /\ calls[k].pc = "ensureDir"
  /\ \E ok \in BOOLEAN :
       IF ok
       THEN /\ dirs' = dirs \cup {Head(calls[k].pending)}
            /\ calls' = [calls EXCEPT ![k].pc = "writeFile"]
       ELSE /\ dirs' = dirs
            /\ calls' = [calls EXCEPT ![k] = Threw(calls[k], "Failed to save output files")]
  /\ UNCHANGED <<fn, payload, isJsonFlag, out>>
  /\ UNCHANGED <<entry, pc, args, isTest, baseUrl, routes, validFormat, i, results,
                 errors, gets, files, reply, outcome>>

\* what a file-system error does to the call (catch at fileError, then rethrow)
OnFileError(c) == Threw(c, "Failed to save output files")

\* fs.writeFile(path, data): a file at the same path is replaced; by is the
\* call whose data the file holds
WriteFile(fs, f) ==
  {x \in fs : ~(x.dir = f.dir /\ x.name = f.name /\ x.ext = f.ext)} \cup {f}

\* await fs.writeFile(path, ...): succeeds, or throws
GWriteFile(k) ==
  /\ k \in 1..Len(calls)
  /\ calls[k].pc = "writeFile"
  /\ LET c == calls[k]
         d == Head(c.pending)
     IN \E ok \in BOOLEAN :
          IF ok
          THEN /\ files' = WriteFile(files, [dir |-> d,
                                             name |-> generateFilename(c.normalizedRoute,
                                                                       c.title, c.now),
                                             ext |-> Extension(d), by |-> k])
               /\ calls' = [calls EXCEPT ![k] =
                    IF Tail(c.pending) = <<>>
                    THEN Returned([c EXCEPT !.pending = <<>>],
                                  RouteResult(c.normalizedRoute, c.fullUrl, c.title,
                                              c.markdownContent))
                    ELSE [c EXCEPT !.pending = Tail(c.pending), !.pc = "ensureDir"]]
          ELSE /\ files' = files
               /\ calls' = [calls EXCEPT ![k] = OnFileError(c)]
  /\ UNCHANGED <<fn, payload, isJsonFlag, out>>
  /\ UNCHANGED <<entry, pc, args, isTest, baseUrl, routes, validFormat, i, results,
                 errors, gets, dirs, reply, outcome>>

(****************************** processRoutes ******************************)
\* validation that forgets the empty array
routesInvalidNoLengthCheck(rs) == rs.type # "array"

\* !Array.isArray(routes) || routes.length === 0
routesInvalid(rs) == rs.type # "array" \/ Len(rs.a) = 0

\* no downgrade of an invalid format
validFormatOfNoDowngrade(format) == format.v

\* VALID_FORMATS.includes(format) ? format : DEFAULT_FORMAT
validFormatOf(format) ==
  IF format.type = "string" /\ format.v \in VALID_FORMATS THEN format.v ELSE DEFAULT_FORMAT

\* a loop that does not await the promise
AwaitedNoWait(k) == k \in 1..Len(calls)

\* the loop's await: the promise of generateFilesForRoute for route k has settled
Awaited(k) == k \in 1..Len(calls) /\ Settled(calls[k])

\* a loop body without its try/catch: the error of a route escapes
AfterCallNoCatch(c) ==
  IF c.pc = "threw"
  THEN [rejected |-> TRUE, results |-> results, errors |-> errors]
  ELSE [rejected |-> FALSE,
        results |-> IF Falsy(c.value) THEN results ELSE Append(results, c.value),
        errors |-> errors]

\* the body of the loop after the await: try { push result } catch { push error }
AfterCall(c) ==
  IF c.pc = "threw"
  THEN [rejected |-> FALSE, results |-> results,
        errors |-> Append(errors, [route |-> c.route, error |-> c.error])]
  ELSE [rejected |-> FALSE,
        results |-> IF Falsy(c.value) THEN results ELSE Append(results, c.value),
        errors |-> errors]

NoOutcome == [kind |-> "none", value |-> Undef, error |-> ""]

\* processRoutes(b, rs, f): defaults, input validation, validFormat
CallProcessRoutes(b, rs, f) ==
  /\ pc = "idle"
  /\ entry' = "processRoutes"
  /\ args' = [baseUrl |-> b, routes |-> rs, format |-> f]
  /\ baseUrl' = Default(b, Str(DEFAULT_BASE_URL))
  /\ routes' = Default(rs, Arr(DEFAULT_ROUTES))
  /\ validFormat' = validFormatOf(Default(f, Str(DEFAULT_FORMAT)))
  /\ IF Falsy(baseUrl')
     THEN pc' = "rejected"
          /\ outcome' = [kind |-> "rejected", value |-> Undef, error |-> "Base URL is required"]
     ELSE IF routesInvalid(routes')
     THEN pc' = "rejected"
          /\ outcome' = [kind |-> "rejected", value |-> Undef,
                         error |-> "Routes must be a non-empty array"]
     ELSE pc' = "loop" /\ outcome' = outcome
  /\ i' = 1
  /\ UNCHANGED <<fn, payload, isJsonFlag, out>>
  /\ UNCHANGED <<isTest, results, errors, calls, gets, dirs, files, reply>>

\* top of the loop body: generateFilesForRoute(baseUrl, routes[i], validFormat)
LoopCall ==
  /\ entry = "processRoutes"
  /\ pc = "loop"
  /\ i <= Len(routes.a)
  /\ calls' = Append(calls, NewCall(baseUrl, routes.a[i], Str(validFormat)))
  /\ pc' = "await"
  /\ UNCHANGED <<fn, payload, isJsonFlag, out>>
  /\ UNCHANGED <<entry, args, isTest, baseUrl, routes, validFormat, i, results, errors,
                 gets, dirs, files, reply, outcome>>

\* the await returns or throws; next iteration, or the summary and return results
LoopResume ==
  /\ entry = "processRoutes"
  /\ pc = "await"
  /\ Awaited(i)
  /\ LET a == AfterCall(calls[i])
     IN /\ results' = a.results
        /\ errors' = a.errors
        /\ IF a.rejected
           THEN pc' = "rejected"
                /\ outcome' = [kind |-> "rejected", value |-> Undef, error |-> calls[i].error]
           ELSE IF i = Len(routes.a)
           THEN pc' = "resolved"
                /\ outcome' = [kind |-> "resolved", value |-> Arr(a.results), error |-> ""]
           ELSE pc' = "loop" /\ outcome' = outcome
  /\ i' = i + 1
  /\ UNCHANGED <<fn, payload, isJsonFlag, out>>
  /\ UNCHANGED <<entry, args, isTest, baseUrl, routes, validFormat, calls, gets, dirs,
                 files, reply>>

(********************** the exports called directly ************************)
\* generateFilesForRoute(b, r, f) called by the user of the module
CallGenerateFilesForRoute(b, r, f) ==
  /\ pc = "idle"
  /\ entry' = "generateFilesForRoute"
  /\ args' = [baseUrl |-> b, routes |-> r, format |-> f]
  /\ calls' = <<NewCall(b, r, Default(f, Str(DEFAULT_FORMAT)))>>
  /\ pc' = "await"
  /\ UNCHANGED <<fn, payload, isJsonFlag, out>>
  /\ UNCHANGED <<isTest, baseUrl, routes, validFormat, i, results, errors, gets, dirs,
                 files, reply, outcome>>

\* its promise settles (processSinglePage returns the awaited value and its
\* catch rethrows, so it settles as the call it made)
GenerateSettle ==
  /\ entry \in {"generateFilesForRoute", "processSinglePage"}
  /\ pc = "await"
  /\ Settled(calls[1])
  /\ IF calls[1].pc = "threw"
     THEN pc' = "rejected"
          /\ outcome' = [kind |-> "rejected", value |-> Undef, error |-> calls[1].error]
     ELSE pc' = "resolved"
          /\ outcome' = [kind |-> "resolved", value |-> calls[1].value, error |-> ""]
  /\ UNCHANGED <<fn, payload, isJsonFlag, out>>
  /\ UNCHANGED <<entry, args, isTest, baseUrl, routes, validFormat, i, results, errors,
                 calls, gets, dirs, files, reply>>

\* new URL(url): the tokens after the scheme and the slashes that follow it
RECURSIVE DropSlashes(_)
DropSlashes(s) == IF s # <<>> /\ Head(s) = "/" THEN DropSlashes(Tail(s)) ELSE s

AfterScheme(url) == DropSlashes(Tail(url))

\* the part of s before the first "?" (the whole of s when there is none)
RECURSIVE BeforeQuery(_)
BeforeQuery(s) ==
  IF s = <<>> \/ Head(s) = "?" THEN <<>> ELSE <<Head(s)>> \o BeforeQuery(Tail(s))

\* `${urlObj.protocol}//${urlObj.hostname}${urlObj.port ? `:${urlObj.port}` : ''}`
\* (the host token stands for the host name with its port, if any)
pageBaseUrl(url) == <<"https:", "/", "/", Head(AfterScheme(url))>>

\* urlObj.pathname: "/" when the URL has no path; never the query string
pagePathname(url) ==
  LET path == BeforeQuery(Tail(AfterScheme(url)))
  IN IF path = <<>> THEN <<"/">> ELSE path

\* processSinglePage(u, f) called by the user of the module: the URL check
\* throws inside the try and the catch rethrows; else the URL is split and
\* generateFilesForRoute is called
CallProcessSinglePage(u, f) ==
  /\ pc = "idle"
  /\ entry' = "processSinglePage"
  /\ args' = [baseUrl |-> Str(u), routes |-> Undef, format |-> f]
  /\ IF ~isValidUrl(u)
     THEN /\ pc' = "rejected"
          /\ outcome' = [kind |-> "rejected", value |-> Undef, error |-> "Invalid URL"]
          /\ calls' = calls
     ELSE /\ pc' = "await"
          /\ outcome' = outcome
          /\ calls' = <<NewCall(Str(pageBaseUrl(u)), Str(pagePathname(u)),
                                Default(f, Str(DEFAULT_FORMAT)))>>
  /\ UNCHANGED <<fn, payload, isJsonFlag, out>>
  /\ UNCHANGED <<isTest, baseUrl, routes, validFormat, i, results, errors, gets, dirs,
                 files, reply>>

\* fetchContent(u) called by the user of the module: URL check, then axios.get
CallFetchContent(u) ==
  /\ pc = "idle"
  /\ entry' = "fetchContent"
  /\ args' = [baseUrl |-> Str(u), routes |-> Undef, format |-> Undef]
  /\ IF ~isValidUrl(u)
     THEN pc' = "resolved"
          /\ outcome' = [kind |-> "resolved", value |-> Null, error |-> ""]
          /\ gets' = gets
     ELSE pc' = "fetching"
          /\ outcome' = outcome
          /\ gets' = Append(gets, [call |-> 0, url |-> u])
  /\ UNCHANGED <<fn, payload, isJsonFlag, out>>
  /\ UNCHANGED <<isTest, baseUrl, routes, validFormat, i, results, errors, calls, dirs,
                 files, reply>>

\* axios.get settles and fetchContent with it
FetchResponse ==
  /\ entry = "fetchContent"
  /\ pc = "fetching"
  /\ \E resp \in Responses :
       LET s == fetchContentSettle(resp)
       IN /\ reply' = resp
          /\ pc' = s.kind
          /\ outcome' = s
  /\ UNCHANGED <<fn, payload, isJsonFlag, out>>
  /\ UNCHANGED <<entry, args, isTest, baseUrl, routes, validFormat, i, results, errors,
                 calls, gets, dirs, files>>

(***************************** specification *******************************)
Init ==
  /\ entry = "none"
  /\ pc = "idle"
  /\ args = [baseUrl |-> Undef, routes |-> Undef, format |-> Undef]
  /\ isTest \in BOOLEAN
  /\ baseUrl = Undef
  /\ routes = Undef
  /\ validFormat = DEFAULT_FORMAT
  /\ i = 1
  /\ results = <<>>
  /\ errors = <<>>
  /\ calls = <<>>
  /\ gets = <<>>
  /\ dirs = {}
  /\ files = {}
  /\ reply = NoResponse
  /\ outcome = NoOutcome
  /\ fn = "none"
  /\ payload = Null
  /\ isJsonFlag = FALSE
  /\ out = Null

\* the caller invokes one export; the other steps belong to the running call
Invoke ==
  /\ pc = "idle"
  /\ \/ \E b \in BaseInputs, rs \in RoutesInputs, f \in FormatInputs :
          CallProcessRoutes(b, rs, f)
     \/ \E b \in BaseInputs, r \in RouteInputs, f \in FormatInputs :
          CallGenerateFilesForRoute(b, r, f)
     \/ \E u \in UrlInputs : CallFetchContent(u)
     \/ \E u \in PageInputs, f \in FormatInputs : CallProcessSinglePage(u, f)

Next ==
  \/ Invoke
  \/ LoopCall
  \/ LoopResume
  \/ GenerateSettle
  \/ FetchResponse
  \/ \E k \in 1..Len(calls) : GStart(k)
  \/ \E k \in 1..Len(calls) : GResponse(k)
  \/ \E k \in 1..Len(calls) : GEnsureDir(k)
  \/ \E k \in 1..Len(calls) : GWriteFile(k)

Spec == Init /\ [][Next]_vars

(********************* runs of processRoutes alone *************************)
\* two routes that differ and have the same slug, and the empty route; a base
\* URL with and without a scheme; every format is asked for
RunRouteInputs ==
  {Str(<<"/", "about", "/", "us">>), Str(<<"/", "about", "-", "us">>), Str(<<>>)}
RunBaseInputs == {Str(<<"https:", "/", "/", "host">>), Str(<<"host">>)}

InvokeRun ==
  /\ pc = "idle"
  /\ \E b \in RunBaseInputs, a \in SeqsUpTo(RunRouteInputs, MaxRoutes) :
       CallProcessRoutes(b, Arr(a), Str(<<"all">>))

RunNext ==
  \/ InvokeRun
  \/ LoopCall
  \/ LoopResume
  \/ \E k \in 1..Len(calls) : GStart(k)
  \/ \E k \in 1..Len(calls) : GResponse(k)
  \/ \E k \in 1..Len(calls) : GEnsureDir(k)
  \/ \E k \in 1..Len(calls) : GWriteFile(k)

RunSpec == Init /\ [][RunNext]_vars

\* the event loop runs every continuation that is ready, every GET completes
\* or times out and every file operation returns
RunLiveSpec ==
  /\ RunSpec
  /\ WF_vars(InvokeRun) /\ WF_vars(LoopCall) /\ WF_vars(LoopResume)
  /\ \A k \in 1..MaxRoutes :
       /\ WF_vars(GStart(k)) /\ WF_vars(GResponse(k))
       /\ WF_vars(GEnsureDir(k)) /\ WF_vars(GWriteFile(k))

(************** the content processor called directly *********************)
\* every text of at most MaxTokens tokens over the tokens that decide
\* isJsonContent, and values that are no strings
DetectInputs ==
  {Str(t) : t \in SeqsUpTo({" ", "nbsp", "{", "}", "[", "]", "5"}, MaxTokens)}
    \cup {Null, Undef, Str(JsonNumTitle)}

\* the elements s[k] of a sequence with k in the set keep, in order
RECURSIVE Pick(_, _, _)
Pick(s, keep, k) ==
  IF k > Len(s) THEN <<>>
  ELSE (IF k \in keep THEN <<s[k]>> ELSE <<>>) \o Pick(s, keep, k + 1)

\* HTML pages: a head with any of the sources of a title and a description, a
\* body, and possibly a comment before or after the html element
HeadParts ==
  LET Meta(attr, value, content) ==
        Element("meta", <<<<attr, value>>, <<"content", content>>>>, <<>>)
  IN
  <<Meta("property", "og:title", "OG-title"),
    Element("title", <<>>, <<TextNode(<<" ", "Test", " ", "Page", " ">>)>>),
    Meta("name", "description", "A-description"),
    Meta("property", "og:description", "OG-description"),
    Meta("name", "twitter:description", "Twitter-description")>>
PageBodies ==
  {<<>>,
   <<Element("header", <<>>, <<Element("h1", <<>>, <<TextNode(<<"Header">>)>>)>>),
     Element("main", <<>>,
       <<Element("h2", <<>>, <<TextNode(<<"Main", " ", "Content">>)>>),
         Element("p", <<>>, <<TextNode(<<"main", " ", "content">>)>>),
         CommentNode(<<"removed">>)>>),
     Element("script", <<>>, <<TextNode(<<"console.log()">>)>>)>>,
   <<Element("h1", <<>>, <<TextNode(<<LongText>>)>>)>>,
   <<Element("p", <<>>, <<TextNode(<<"<", "b", ">", "bold", "<", "/", "b", ">">>)>>)>>,
   <<Element("div", <<<<"id", "content">>>>,
       <<Element("p", <<>>, <<Element("img", <<<<"alt", "Alt">>>>, <<>>)>>),
         Element("p", <<>>, <<TextNode(<<"text">>)>>)>>),
     Element("style", <<>>, <<TextNode(<<"p{}">>)>>)>>}
HtmlInputs ==
  LET Heads == {Pick(HeadParts, keep, 1) : keep \in SUBSET (1..Len(HeadParts))}
      Page(head, body, before, after) ==
        Document((IF before THEN <<CommentNode(<<"before">>)>> ELSE <<>>)
                   \o <<Element("html", <<>>,
                          <<Element("head", <<>>, head), Element("body", <<>>, body)>>)>>
                   \o (IF after THEN <<CommentNode(<<"after">>)>> ELSE <<>>))
  IN {Str(OuterHtml(Page(h, b, c[1], c[2]))) :
        h \in Heads, b \in PageBodies,
        c \in {<<FALSE, FALSE>>, <<TRUE, FALSE>>, <<FALSE, TRUE>>}}

\* fragments: a list of at most MaxItems items, some with a numeral of their own
MaxItems == 2
ListInputs ==
  LET Items == {Element("li", <<>>, <<TextNode(<<"a">>)>>),
                Element("li", <<>>, <<TextNode(<<"7.", " ", "b">>)>>)}
  IN
  {Str(OuterHtml(Element(name, start, items))) :
     name \in {"ol", "ul"}, start \in {<<>>, <<<<"start", "5">>>>},
     items \in SeqsUpTo(Items, MaxItems) \ {<<>>}}

\* fragments: a paragraph with a link whose href is absolute, relative or missing
LinkInputs ==
  {Str(OuterHtml(Element("p", <<>>,
         <<TextNode(<<"Visit", " ">>), Element("a", href, <<TextNode(<<"Example">>)>>)>>))) :
     href \in {<<>>, <<<<"href", "https://wikipedia.org">>>>, <<<<"href", "http://host/page">>>>,
               <<<<"href", "/relative">>>>}}

\* fragments for the search of the main content: any of these elements, in
\* this order, as the children of the body
LocatorParts ==
  LET Paragraphs(n, text) == [k \in 1..n |-> Element("p", <<>>, <<TextNode(text)>>)]
  IN <<Element("main", <<>>, <<TextNode(<<"m", "m">>)>>),
       Element("article", <<>>, <<TextNode(<<"a", "a", "a">>)>>),
       Element("div", <<<<"id", "content">>>>, <<TextNode(<<"c", "c">>)>>),
       Element("div", <<<<"class", "content">>>>, <<Element("img", <<<<"alt", "Alt">>>>, <<>>)>>),
       Element("section", <<>>, <<TextNode(<<"s", "s", "s">>)>>),
       Element("div", <<>>, Paragraphs(4, <<"p">>)),
       Element("div", <<>>, Paragraphs(4, <<"q", "q">>)),
       Element("div", <<>>, Paragraphs(3, <<"r", "r", "r", "r">>)),
       Element("p", <<>>, <<TextNode(<<"t">>), Element("img", <<<<"alt", "Alt2">>>>, <<>>)>>),
       Element("p", <<>>, <<Element("img", <<<<"alt", "Alt3">>>>, <<>>)>>)>>
LocatorInputs ==
  {Str(InnerHtml(Pick(LocatorParts, keep, 1))) : keep \in SUBSET (1..Len(LocatorParts))}
    \ {Str(<<>>)}

\* fragments with white space: a main element whose text has spaces and line
\* breaks around and between two words
TextInputs ==
  {Str(OuterHtml(Element("main", <<>>,
         <<TextNode(lead \o <<"x">> \o mid \o <<"y">> \o trail)>>))) :
     lead \in {<<>>, <<" ">>, <<"\n">>}, trail \in {<<>>, <<" ">>, <<"\n">>},
     mid \in SeqsUpTo({" ", "\n"}, MaxTokens)}

\* JSON texts: objects of at most MaxMembers properties, arrays of at most
\* MaxItems objects of at most one property, primitives, and a text that does
\* not parse
MaxMembers == 2
JsonMembers ==
  {Member(<<"title">>, Str(<<"T">>)), Member(<<"title">>, Num(<<"5">>)),
   Member(<<"name">>, ObjOf(<<>>)), Member(<<"id">>, Num(<<"5">>)),
   Member(<<"type">>, Str(<<"post">>)),
   Member(<<"body">>, Str(<<"<", "b", ">", "bold", "</", "b", ">">>)),
   Member(<<"body">>, ObjOf(<<Member(<<"k">>, Num(<<"5">>))>>)),
   Member(<<"summary">>, Null),
   Member(<<"author">>, Num(<<"5">>)),
   Member(<<"author">>, ObjOf(<<Member(<<"name">>, Num(<<"5">>))>>)),
   Member(<<"user">>, Str(<<"U">>)), Member(<<"date">>, Num(<<"5">>))}
JsonInputs ==
  LET JsonObjects == {ObjOf(ms) : ms \in SeqsUpTo(JsonMembers, MaxMembers)}
  IN
  {Str(Stringify(o, 0)) : o \in JsonObjects}
    \cup {Str(Stringify(Arr(os), 0)) :
            os \in SeqsUpTo({x \in JsonObjects : Len(x.a) <= 1}, MaxItems)}
    \cup {Str(<<"null">>), Str(<<"5">>), Str(<<Quote, "text", Quote>>),
          Str(<<"{", Quote, "title", Quote, ":">>)}

Payloads ==
  DetectInputs \cup HtmlInputs \cup ListInputs \cup LinkInputs \cup LocatorInputs
    \cup TextInputs \cup JsonInputs

ProcessorInit ==
  /\ entry = "none"
  /\ pc = "idle"
  /\ args = [baseUrl |-> Undef, routes |-> Undef, format |-> Undef]
  /\ isTest = FALSE
  /\ baseUrl = Undef
  /\ routes = Undef
  /\ validFormat = DEFAULT_FORMAT
  /\ i = 1
  /\ results = <<>>
  /\ errors = <<>>
  /\ calls = <<>>
  /\ gets = <<>>
  /\ dirs = {}
  /\ files = {}
  /\ reply = NoResponse
  /\ outcome = NoOutcome
  /\ fn = "none"
  /\ payload \in Payloads
  /\ isJsonFlag \in BOOLEAN
  /\ out = Null

\* isJsonContent(payload)
ApplyIsJsonContent ==
  /\ fn = "none"
  /\ fn' = "isJsonContent"
  /\ out' = isJsonContent(payload)
  /\ UNCHANGED <<payload, isJsonFlag>>
  /\ UNCHANGED orchestrator

\* cleanHtml(payload)
ApplyCleanHtml ==
  /\ fn = "none"
  /\ fn' = "cleanHtml"
  /\ out' = cleanHtml(payload)
  /\ UNCHANGED <<payload, isJsonFlag>>
  /\ UNCHANGED orchestrator

\* extractMetaInfo(payload, isJsonFlag)
ApplyExtractMetaInfo ==
  /\ fn = "none"
  /\ fn' = "extractMetaInfo"
  /\ out' = extractMetaInfo(payload, isJsonFlag)
  /\ UNCHANGED <<payload, isJsonFlag>>
  /\ UNCHANGED orchestrator

\* extractContent(payload)
ApplyExtractContent ==
  /\ fn = "none"
  /\ fn' = "extractContent"
  /\ out' = extractContent(payload)
  /\ UNCHANGED <<payload, isJsonFlag>>
  /\ UNCHANGED orchestrator

\* convertToMarkdown(payload, isJsonFlag)
ApplyConvertToMarkdown ==
  /\ fn = "none"
  /\ fn' = "convertToMarkdown"
  /\ out' = convertToMarkdown(payload, isJsonFlag)
  /\ UNCHANGED <<payload, isJsonFlag>>
  /\ UNCHANGED orchestrator

ProcessorNext ==
  \/ ApplyIsJsonContent
  \/ ApplyCleanHtml
  \/ ApplyExtractMetaInfo
  \/ ApplyExtractContent
  \/ ApplyConvertToMarkdown

ProcessorSpec == ProcessorInit /\ [][ProcessorNext]_vars

(******************************* claims ************************************)
\* the arguments pass the validation of processRoutes (after the defaults)
ArgsPassValidation ==
  /\ \/ args.baseUrl.type = "undefined"
     \/ (args.baseUrl.type = "string" /\ args.baseUrl.v # <<>>)
  /\ \/ args.routes.type = "undefined"
     \/ (args.routes.type = "array" /\ Len(args.routes.a) > 0)

Is2xx(resp) == resp.kind = "response" /\ resp.status \in 200..299

\* C1: once the validation of processRoutes has passed, the call never rejects;
\* while it runs a step is always possible; and when it has resolved, every
\* route of the list has been handed to generateFilesForRoute, in order, and
\* has settled, whatever happened to the routes before it; the value is a list.
C1_BatchNeverAborts ==
  (entry = "processRoutes" /\ ArgsPassValidation) =>
    /\ pc # "rejected"
    /\ outcome.kind # "rejected"
    /\ pc \in {"loop", "await"} => ENABLED Next
    /\ pc = "resolved" =>
         /\ Len(calls) = Len(routes.a)
         /\ \A k \in 1..Len(calls) : calls[k].route = routes.a[k] /\ Settled(calls[k])
         /\ outcome.kind = "resolved"
         /\ outcome.value = Arr(results)

\* C1 witness: the first route threw on a file write, the second still
\* produced a result, and processRoutes resolved
C1_Witness ==
  /\ entry = "processRoutes"
  /\ pc = "resolved"
  /\ Len(calls) = 2
  /\ calls[1].pc = "threw"
  /\ calls[1].error = "Failed to save output files"
  /\ calls[2].pc = "returned"
  /\ calls[2].value.type = "result"

\* C2 (as claimed): when processRoutes has resolved, results and recorded
\* failures add up to the number of routes
C2_EveryRouteAccounted ==
  (entry = "processRoutes" /\ pc = "resolved") =>
    Len(results) + Len(errors) = Len(routes.a)

\* C3: processRoutes handles the routes one at a time in list order: at most
\* one call of generateFilesForRoute is unsettled, a call exists only when all
\* earlier calls have settled (returned or thrown, so no GET and no file write
\* of theirs is outstanding), and the GETs are issued in list order.
C3_StrictlySequential ==
  entry = "processRoutes" =>
    /\ Cardinality({k \in 1..Len(calls) : ~Settled(calls[k])}) <= 1
    /\ \A k \in 1..Len(calls) :
         /\ calls[k].route = routes.a[k]
         /\ \A j \in 1..(k - 1) : Settled(calls[j])
    /\ \A g \in 1..Len(gets) : \A h \in 1..Len(gets) :
         g < h => gets[g].call < gets[h].call

\* C3 witness: the GET of the second route is in flight after the first route
\* was fetched, extracted and written
C3_Witness ==
  /\ entry = "processRoutes"
  /\ Len(calls) = 2
  /\ calls[2].pc = "get"
  /\ calls[1].pc = "returned"
  /\ calls[1].value.type = "result"
  /\ files # {}

\* C4 (as claimed): provided no file write failed, the returned list holds, in
\* input order, exactly one result for each route whose GET received a 2xx
GotOk == SelectSeq(calls, LAMBDA c : Is2xx(c.response))
C4_OneResultPer2xx ==
  (/\ entry = "processRoutes"
   /\ pc = "resolved"
   /\ \A k \in 1..Len(calls) : calls[k].error # "Failed to save output files") =>
    /\ Len(results) = Len(GotOk)
    /\ \A n \in 1..Len(results) : results[n].url = GotOk[n].fullUrl

\* C5: processRoutes called with baseUrl null or "", or with routes that is no
\* array or is the empty array, rejects, and no GET was issued, no directory
\* made and no file written
C5_InvalidArgumentsReject ==
  (/\ entry = "processRoutes"
   /\ \/ args.baseUrl.type = "null"
      \/ (args.baseUrl.type = "string" /\ args.baseUrl.v = <<>>)
      \/ args.routes.type \notin {"array", "undefined"}
      \/ (args.routes.type = "array" /\ Len(args.routes.a) = 0)) =>
    /\ pc = "rejected"
    /\ outcome.kind = "rejected"
    /\ calls = <<>>
    /\ gets = <<>>
    /\ dirs = {}
    /\ files = {}

\* C5 witness: a valid baseUrl with an empty routes array was rejected
C5_Witness ==
  /\ entry = "processRoutes"
  /\ args.baseUrl = Str(<<"https:", "/", "/", "host">>)
  /\ args.routes = Arr(<<>>)
  /\ pc = "rejected"

\* C6: processRoutes called with a format outside {text, json, markdown, all}
\* runs as with "text": it rejects only on the baseUrl/routes validation, every
\* route is called with format "text" and none fails on the format, only
\* output/text and .txt files are written, a route that returns a result has
\* its text file, and the results are returned
C6_InvalidFormatRunsAsText ==
  (/\ entry = "processRoutes"
   /\ args.format.type = "string"
   /\ args.format.v \notin {<<"text">>, <<"json">>, <<"markdown">>, <<"all">>}) =>
    /\ validFormat = <<"text">>
    /\ pc = "rejected" => calls = <<>>
    /\ \A k \in 1..Len(calls) :
         /\ calls[k].format = Str(<<"text">>)
         /\ calls[k].error # "Invalid format"
         /\ calls[k].value.type = "result" =>
              \E f \in files : f.dir = "text" /\ f.name.slug = routeSlug(calls[k].normalizedRoute)
    /\ \A f \in files : f.dir = "text" /\ f.ext = ".txt"
    /\ dirs \subseteq {"text"}
    /\ pc = "resolved" => Len(calls) = Len(routes.a) /\ outcome.value = Arr(results)

\* C6 witness: a run with an invalid format resolved with a result and a file
C6_Witness ==
  /\ entry = "processRoutes"
  /\ args.format = Str(<<"invalid-format">>)
  /\ pc = "resolved"
  /\ Len(results) >= 1
  /\ files # {}

\* C7: for a non-empty baseUrl b and a non-empty route r, generateFilesForRoute
\* uses route r when r starts with "/" and "/" + r otherwise, and url b + route:
\* its result carries them in route, url, data.route and data.url, its GET went
\* to exactly that url, and normalising the normalised route changes nothing
C7_RouteNormalised ==
  \A k \in 1..Len(calls) :
    LET c == calls[k]
    IN (c.pc # "start" /\ ~Falsy(c.baseUrl) /\ ~Falsy(c.route)
        /\ c.format.v \in VALID_FORMATS) =>
         LET r == c.route.v
             nr == IF r[1] = "/" THEN r ELSE <<"/">> \o r
             u == c.baseUrl.v \o nr
         IN /\ c.normalizedRoute = nr
            /\ c.fullUrl = u
            /\ normalizedRoute(nr) = nr
            /\ c.value.type = "result" =>
                 /\ c.value.route = nr
                 /\ c.value.url = u
                 /\ c.value.data.route = nr
                 /\ c.value.data.url = u
            /\ \A g \in 1..Len(gets) : gets[g].call = k => gets[g].url = u
            /\ c.pc \in {"get", "ensureDir", "writeFile"} =>
                 \E g \in 1..Len(gets) : gets[g].call = k

\* C7 witness: a route without leading slash and one with it both gave results
C7_Witness ==
  /\ Len(calls) = 2
  /\ calls[1].route = Str(<<"researchHub">>)
  /\ calls[1].value.type = "result"
  /\ calls[1].value.route = <<"/", "researchHub">>
  /\ calls[2].route = Str(<<"/", "about">>)
  /\ calls[2].value.type = "result"
  /\ calls[2].value.url = <<"https:", "/", "/", "host", "/", "about">>

\* C8: fetchContent never rejects; for a string that is no parseable absolute
\* URL it resolves to null and no request is issued; after a non-2xx status, a
\* timeout or a network error it resolves to null; a non-null value comes only
\* from a 2xx response (called directly or from generateFilesForRoute)
C8_FetchNeverRejects ==
  /\ entry = "fetchContent" =>
       /\ pc # "rejected"
       /\ outcome.kind # "rejected"
       /\ ~isValidUrl(args.baseUrl.v) => pc = "resolved" /\ outcome.value = Null /\ gets = <<>>
       /\ pc = "resolved" =>
            /\ outcome.kind = "resolved"
            /\ ~Is2xx(reply) => outcome.value = Null
  /\ \A k \in 1..Len(calls) :
       /\ calls[k].error # "fetch rejected"
       /\ (calls[k].pc \notin {"start", "get"} /\ ~Is2xx(calls[k].response)) =>
            calls[k].content \in {Null, Undef}

\* C8 witness: fetchContent called directly on a page answering 404 gave null
C8_Witness ==
  /\ entry = "fetchContent"
  /\ pc = "resolved"
  /\ reply.kind = "response"
  /\ reply.status = 404
  /\ outcome.value = Null

\* C9 (as claimed): the value fetchContent resolves to is a string or null
C9_FetchValueStringOrNull ==
  (entry = "fetchContent" /\ pc = "resolved") => outcome.value.type \in {"string", "null"}

\* C10 (as claimed): generateFilesForRoute called with a non-empty baseUrl, a
\* non-empty route and a valid format never rejects
C10_GenerateNeverRejects ==
  (/\ entry = "generateFilesForRoute"
   /\ ~Falsy(args.baseUrl)
   /\ ~Falsy(args.routes)
   /\ (args.format.type = "undefined" \/ args.format.v \in VALID_FORMATS)) =>
    /\ pc # "rejected"
    /\ \A k \in 1..Len(calls) : calls[k].pc # "threw"

\* the directories a format asks for
RequestedDirs(format) ==
  IF format = <<"all">> THEN {"json", "text", "markdown"}
  ELSE IF format = <<"json">> THEN {"json"}
  ELSE IF format = <<"markdown">> THEN {"markdown"}
  ELSE {"text"}

\* C11: a generateFilesForRoute call that returned a result has written exactly
\* one file per requested format, each under the directory of its format and
\* with its extension (.txt under text, .json under json, .md under markdown),
\* and at no moment of the call does a directory or a file of a format that
\* was not requested exist
C11_OnlyRequestedFormatWritten ==
  entry = "generateFilesForRoute" =>
    \A k \in 1..Len(calls) :
      LET want == RequestedDirs(calls[k].format.v)
      IN /\ calls[k].format.type = "string" =>
              /\ dirs \subseteq want
              /\ \A x \in files : x.dir \in want
         /\ (calls[k].pc = "returned" /\ calls[k].value.type = "result") =>
              /\ dirs = want
              /\ Cardinality(files) = Cardinality(want)
              /\ \A d \in want : \E x \in files : x.dir = d
              /\ \A x \in files :
                   \/ (x.dir = "text" /\ x.ext = ".txt")
                   \/ (x.dir = "json" /\ x.ext = ".json")
                   \/ (x.dir = "markdown" /\ x.ext = ".md")

\* C11 witness: a call with format "text" returned a result and the only file
\* is a .txt file under text
C11_Witness ==
  /\ entry = "generateFilesForRoute"
  /\ pc = "resolved"
  /\ calls[1].format = Str(<<"text">>)
  /\ calls[1].value.type = "result"
  /\ dirs = {"text"}
  /\ \E x \in files : files = {x} /\ x.dir = "text" /\ x.ext = ".txt"

\* the URL a string denotes: scheme, host, path ("/" when empty) and query
UrlOf(url) ==
  LET rest == Tail(AfterScheme(url))
      path == BeforeQuery(rest)
  IN [origin |-> pageBaseUrl(url),
      path |-> IF path = <<>> THEN <<"/">> ELSE path,
      query |-> SubSeq(rest, Len(path) + 1, Len(rest))]

\* C12 (as claimed): processSinglePage(u, f) on a valid absolute URL u issues
\* its GET to a URL equal to u, query string included, and the result returned
\* has url equal to u; on an invalid URL it rejects and issues no request
C12_SinglePageProcessesUrl ==
  entry = "processSinglePage" =>
    IF isValidUrl(args.baseUrl.v)
    THEN /\ Len(gets) <= 1
         /\ \A g \in 1..Len(gets) : UrlOf(gets[g].url) = UrlOf(args.baseUrl.v)
         /\ (pc = "resolved" /\ outcome.value.type = "result") =>
              UrlOf(outcome.value.url) = UrlOf(args.baseUrl.v)
    ELSE pc = "rejected" /\ gets = <<>>

\* C13: isJsonContent returns true exactly for a string that, once trimmed,
\* starts with { or [ and that JSON.parse accepts; for every other value (a
\* string that starts so but does not parse, any other string, the empty
\* string, null, a value that is no string) it returns false; it always returns
C13_IsJsonContentExact ==
  fn = "isJsonContent" =>
    /\ out \in BOOLEAN
    /\ out <=> /\ payload.type = "string"
               /\ Trim(payload.v) # <<>>
               /\ Head(Trim(payload.v)) \in {"{", "["}
               /\ JsonParse(payload.v).ok

\* C13 witness: isJsonContent answered true for an empty object with a space
\* before it
C13_Witness ==
  /\ fn = "isJsonContent"
  /\ payload = Str(<<" ", "{", "}">>)
  /\ out = TRUE

\* C14: given null or the empty string, with either value of the isJson
\* flag, extractMetaInfo returns the record of an empty title and an empty
\* description and nothing else, extractContent the record of an empty
\* cleanHtml and an empty textContent and nothing else, convertToMarkdown the
\* empty string; each of them returns
C14_EmptyInputDefaults ==
  payload \in {Null, Str(<<>>)} =>
    /\ fn = "extractMetaInfo" => out = [title |-> Str(<<>>), description |-> Str(<<>>)]
    /\ fn = "extractContent" => out = [cleanHtml |-> <<>>, textContent |-> <<>>]
    /\ fn = "convertToMarkdown" => out = <<>>

\* C14 witness: convertToMarkdown(null, true) returned the empty string
C14_Witness ==
  /\ fn = "convertToMarkdown"
  /\ payload = Null
  /\ isJsonFlag
  /\ out = <<>>

\* the payload is one of the HTML pages and is handled as HTML
HtmlPayload == payload \in HtmlInputs /\ ~isJsonFlag

\* C15 (as claimed): for a non-empty HTML payload extractMetaInfo returns as
\* title the first non-empty of og:title, the trimmed text of <title> and the
\* first <h1> if shorter than 100 characters, and as description the first
\* non-empty of the description, og:description and twitter:description metas
C15_TitleAndDescriptionChains ==
  (fn = "extractMetaInfo" /\ HtmlPayload) =>
    LET doc == cheerioLoad(payload.v)
    IN /\ out.title = htmlMetaInfo(doc).title
       /\ out.description = htmlMetaInfo(doc).description

\* the head of the document holds a source of a title or of a description
HeadHasSource(doc) ==
  \/ Query(doc, <<"tag[]", "meta", "property", "og:title">>) # <<>>
  \/ Query(doc, <<"tag", "title">>) # <<>>
  \/ Query(doc, <<"tag[]", "meta", "name", "description">>) # <<>>
  \/ Query(doc, <<"tag[]", "meta", "property", "og:description">>) # <<>>
  \/ Query(doc, <<"tag[]", "meta", "name", "twitter:description">>) # <<>>

\* C16 (as claimed): on an HTML document extractMetaInfo returns the record of
\* the two keys title and description exactly when the head holds no source of
\* a title and none of a description; with at least one it returns the object
\* of the seven fields
C16_TwoKeysExactlyWithoutSources ==
  (fn = "extractMetaInfo" /\ HtmlPayload) =>
    IF HeadHasSource(cheerioLoad(payload.v))
    THEN DOMAIN out =
           {"title", "description", "author", "date", "keywords", "url", "siteName"}
    ELSE out = [title |-> Str(<<>>), description |-> Str(<<>>)]

\* C17 (as claimed): every field of the object extractMetaInfo returns is a
\* string, and keywords a sequence of strings, for every payload and flag
C17_MetaFieldsAreStrings ==
  fn = "extractMetaInfo" =>
    \A f \in DOMAIN out :
      IF f = "keywords"
      THEN /\ out[f].type = "array"
           /\ \A k \in 1..Len(out[f].a) : out[f].a[k].type = "string"
      ELSE out[f].type = "string"

\* markup of the form <name ...> or </name> occurs in a text
HasTag(text) ==
  \E k \in 1..Len(text) : \E j \in (k + 2)..Len(text) :
    /\ text[k] \in {"<", "</"}
    /\ text[j] = ">"
    /\ \A m \in (k + 1)..(j - 1) : text[m] \notin TrimWhitespace \cup {"<", "</", ">"}

\* C18 (as claimed): the textContent extractContent returns holds no HTML tag,
\* for every payload, HTML or JSON
C18_TextContentHasNoTag ==
  fn = "extractContent" => ~HasTag(out.textContent)

\* every node of a tree, the root included
RECURSIVE NodesOf(_)
NodesOf(node) ==
  {node} \cup UNION {NodesOf(node.kids[k]) : k \in 1..Len(node.kids)}

\* C19 (as claimed): the document cleanHtml returns for a string holds no
\* script element, no style element and no comment, anywhere in its tree
C19_NoScriptStyleComment ==
  (fn = "cleanHtml" /\ payload.type = "string") =>
    \A n \in NodesOf(out) :
      /\ n.type # "comment"
      /\ ~(n.type = "tag" /\ n.name \in {"script", "style"})

\* the lines of a text
RECURSIVE Lines(_)
Lines(text) ==
  LET p == IndexFrom(text, "\n", 1)
  IN IF p = 0 THEN <<text>>
     ELSE <<SubSeq(text, 1, p - 1)>> \o Lines(SubSeq(text, p + 1, Len(text)))

\* C20 (as claimed): convertToMarkdown(html, false) on an ordered list of n
\* items whose start attribute is s (1 when there is none) returns n lines,
\* numbered s, s+1, ..., s+n-1 in order
C20_OrderedListNumbering ==
  (fn = "convertToMarkdown" /\ ~isJsonFlag /\ payload \in ListInputs) =>
    LET list == Query(cheerioLoad(payload.v), bodySelector)[1].kids[1]
        s == IF Attr(list, "start") = Undef THEN 1 ELSE parseInt(Attr(list, "start").v[1])
        n == Len(list.kids)
    IN list.name = "ol" =>
         /\ Len(Lines(out)) = n
         /\ \A k \in 1..n :
              /\ Len(Lines(out)[k]) >= 2
              /\ Lines(out)[k][1] = NumberText(s + k - 1)
              /\ Lines(out)[k][2] = "."

\* C21 (as claimed): convertToMarkdown(html, false) renders a link whose href
\* is an absolute http(s) URL as [text](href) and any other link as its text
C21_LinksRendered ==
  (fn = "convertToMarkdown" /\ ~isJsonFlag /\ payload \in LinkInputs) =>
    LET href == Attr(Query(cheerioLoad(payload.v), <<"tag", "a">>)[1], "href")
    IN out = <<"Visit", " ">>
               \o (IF href # Undef /\ href.v[1] \in {"https://wikipedia.org", "http://host/page"}
                   THEN <<"[", "Example", "]", "(", href.v[1], ")">>
                   ELSE <<"Example">>)

\* the fenced block that convertToMarkdown builds around a text
Fenced(label, text) == <<Fence>> \o label \o <<"\n">> \o text \o <<"\n", Fence, "\n", "\n">>

\* C22, on the function: convertToMarkdown(c, true) on a non-empty string c is
\* the json-labelled block around the pretty-printed parse of c when c parses,
\* else the unlabelled block around c unchanged
C22_JsonFencedBlock ==
  (fn = "convertToMarkdown" /\ isJsonFlag /\ payload.type = "string" /\ payload.v # <<>>) =>
    LET parsed == JsonParse(payload.v)
    IN out = IF parsed.ok THEN Fenced(<<"json">>, Stringify(parsed.val, 0))
             ELSE Fenced(<<>>, payload.v)

\* the value that fetchContent returned is JSON: an object, or a JSON text
FetchedJson(c) ==
  /\ c.pc = "returned" /\ c.value # Null
  /\ (c.content.type = "object" \/ isJsonContent(c.content))

\* C22 (as claimed), on a route: the markdownContent of a JSON route is the
\* json-fenced pretty-print of the fetched value
C22_JsonRouteMarkdown ==
  \A k \in 1..Len(calls) :
    FetchedJson(calls[k]) =>
      calls[k].value.data.markdownContent =
        Fenced(<<"json">>, Stringify(IF calls[k].content.type = "string"
                                     THEN JsonParse(calls[k].content.v).val
                                     ELSE calls[k].content, 0))

\* the selectors of the prioritized list that match an element of the cleaned
\* payload, and the length of the trimmed text of what selector k matches
Matching == {k \in 1..Len(contentSelectors) : Query(cleanHtml(payload), contentSelectors[k]) # <<>>}
MatchedLength(k) == Length(Trim(TextOfAll(Query(cleanHtml(payload), contentSelectors[k]))))

\* C23 (as claimed): when some selector of the prioritized list matches, the
\* selector chosen is the matching one with the longest trimmed text, the
\* earliest of the list among equal lengths
C23_LongestMatchChosen ==
  (fn = "extractContent" /\ payload \in LocatorInputs /\ Matching # {}) =>
    out.usedSelector =
      contentSelectors[CHOOSE k \in Matching :
                         \A j \in Matching :
                           \/ MatchedLength(j) < MatchedLength(k)
                           \/ (MatchedLength(j) = MatchedLength(k) /\ k <= j)]

\* the HTML returned when the content is taken from these elements
HtmlFrom(elements) == InnerHtml(CleanUp(elements)[1].kids)

\* the div elements of the cleaned payload with more than 3 paragraphs below
LongDivs ==
  SelectSeq(Query(cleanHtml(payload), <<"tag", "div">>),
            LAMBDA d : Len(Query(d, <<"tag", "p">>)) > 3 /\ Length(Trim(TextOf(d))) > 0)

\* C24 (as claimed): when a selector of the prioritized list matched, the
\* content is taken from what one of them matched; when none matched, it is
\* taken from the div with more than 3 paragraphs that has the longest text,
\* and from body when there is no such div
C24_HeuristicOnlyWithoutMatch ==
  (fn = "extractContent" /\ payload \in LocatorInputs) =>
    IF Matching # {}
    THEN \E k \in Matching :
           out.cleanHtml = HtmlFrom(Query(cleanHtml(payload), contentSelectors[k]))
    ELSE IF LongDivs = <<>>
    THEN out.cleanHtml = HtmlFrom(Query(cleanHtml(payload), bodySelector))
    ELSE \E k \in 1..Len(LongDivs) :
           /\ out.cleanHtml = HtmlFrom(<<LongDivs[k]>>)
           /\ \A j \in 1..Len(LongDivs) :
                Length(Trim(TextOf(LongDivs[j]))) <= Length(Trim(TextOf(LongDivs[k])))

\* the images below a node, in document order
Images(node) == Query(node, <<"tag", "img">>)

\* C25 (as claimed): every image inside the element chosen is still in the
\* cleanHtml returned, and every image with a non-empty alt is immediately
\* followed by a sibling figcaption holding that alt text
C25_ImagesKeptAndCaptioned ==
  (fn = "extractContent" /\ payload \in LocatorInputs \cup HtmlInputs) =>
    LET chosen == locate(cleanHtml(payload)).content
        returned == cheerioLoad(out.cleanHtml)
    IN chosen # <<>> =>
         /\ Images(returned) = Images(chosen[1])
         /\ \A n \in NodesOf(returned) :
              \A j \in 1..Len(n.kids) :
                LET alt == Attr(n.kids[j], "alt")
                IN (n.kids[j].type = "tag" /\ n.kids[j].name = "img" /\ ~Falsy(alt)) =>
                     /\ j < Len(n.kids)
                     /\ n.kids[j + 1] = Element("figcaption", <<>>, <<TextNode(alt.v)>>)

\* a text with every run of spaces replaced by one space and every run of
\* three or more line breaks replaced by two
RECURSIVE Normalized(_)
Normalized(s) ==
  IF s = <<>> THEN <<>>
  ELSE LET run == CHOOSE n \in 1..Len(s) :
                    /\ \A k \in 1..n : s[k] = Head(s)
                    /\ (n < Len(s) => s[n + 1] # Head(s))
           rest == Normalized(SubSeq(s, run + 1, Len(s)))
       IN IF Head(s) = " " THEN <<" ">> \o rest
          ELSE IF Head(s) = "\n" THEN (IF run >= 3 THEN <<"\n", "\n">> ELSE SubSeq(s, 1, run)) \o rest
          ELSE <<Head(s)>> \o Normalized(Tail(s))

\* C26 (as claimed): the textContent of the HTML path is the text of the
\* element chosen, trimmed, with every run of spaces replaced by one space and
\* every run of three or more line breaks replaced by two line breaks
C26_TextContentNormalized ==
  (fn = "extractContent" /\ payload \in TextInputs) =>
    out.textContent = Normalized(Trim(TextOfAll(locate(cleanHtml(payload)).content)))

\* the textContent of the payload that is the JSON text of the value x
TextOfJson(x) == extractContent(Str(Stringify(x, 0))).textContent

\* C27 (as claimed): for a JSON object o the textContent of [o] is the
\* textContent of o, and the blocks of an array of two objects are separated
\* by one blank line
C27_ArrayItemsFlattenedAlike ==
  (fn = "extractContent" /\ payload \in JsonInputs /\ isJsonContent(payload)) =>
    LET jsonData == JsonParse(payload.v).val
    IN /\ (jsonData.type = "array" /\ Len(jsonData.a) = 1) =>
            out.textContent = TextOfJson(jsonData.a[1])
       /\ (jsonData.type = "array" /\ Len(jsonData.a) = 2
             /\ TextOfJson(jsonData.a[1]) # <<>> /\ TextOfJson(jsonData.a[2]) # <<>>) =>
            out.textContent =
              TextOfJson(jsonData.a[1]) \o <<"\n", "\n">> \o TextOfJson(jsonData.a[2])

\* the calls of a processRoutes run that returned a result
Successful == {k \in 1..Len(calls) : calls[k].pc = "returned" /\ calls[k].value.type = "result"}

\* C28 (as claimed): when processRoutes has returned and the routes of the run
\* have pairwise different normalized routes, every route processed
\* successfully has, for each requested format, a file of its own that holds
\* its content
C28_OutputsNeverCollide ==
  (/\ entry = "processRoutes" /\ pc = "resolved"
   /\ \A j, k \in 1..Len(calls) :
        j # k => normalizedRoute(calls[j].route.v) # normalizedRoute(calls[k].route.v)) =>
    \A k \in Successful :
      \A d \in RequestedDirs(validFormat) : \E f \in files : f.dir = d /\ f.by = k

\* C29 (as claimed): when processRoutes has returned, a route that is not in
\* the results has left no file of this run on disk
C29_FailedRouteLeavesNoFile ==
  (entry = "processRoutes" /\ pc = "resolved") =>
    \A k \in 1..Len(calls) :
      k \notin Successful => ~(\E f \in files : f.by = k)

\* at most one GET per route, in the order of the list, each to the full URL
\* of its route
GetsInOrder ==
  /\ \A j \in 1..Len(gets) :
       /\ gets[j].call \in 1..Len(calls)
       /\ gets[j].url = fullUrl(baseUrl.v, routes.a[gets[j].call].v)
  /\ \A j, k \in 1..Len(gets) : j < k => gets[j].call < gets[k].call

\* processRoutes has returned and every route of the list is a non-empty string
ReturnedAllNonEmpty ==
  /\ entry = "processRoutes" /\ pc = "resolved"
  /\ \A k \in 1..Len(routes.a) : ~Falsy(routes.a[k])

\* C30 (as claimed): a processRoutes call settles; it issues at most one GET
\* per route, in list order, and exactly one per route when every route is a
\* non-empty string
C30_TerminatesWithOneGetEach ==
  /\ (entry = "processRoutes") ~> (pc \in {"resolved", "rejected"})
  /\ [](entry = "processRoutes" => GetsInOrder)
  /\ [](ReturnedAllNonEmpty => Len(gets) = Len(routes.a))

\* C30 (amended): the same, with exactly one GET per route when every route is
\* a non-empty string and every full URL is one that new URL() accepts
C30_TerminatesWithOneGetPerValidUrl ==
  /\ (entry = "processRoutes") ~> (pc \in {"resolved", "rejected"})
  /\ [](entry = "processRoutes" => GetsInOrder)
  /\ []((/\ ReturnedAllNonEmpty
         /\ \A k \in 1..Len(routes.a) : isValidUrl(fullUrl(baseUrl.v, routes.a[k].v))) =>
          Len(gets) = Len(routes.a))

\* C30 witness: a run over two routes has returned after two GETs, the first
\* of which failed and was not tried again
C30_Witness ==
  /\ ReturnedAllNonEmpty
  /\ Len(routes.a) = 2
  /\ Len(gets) = 2
  /\ calls[1].response.status = 404
  /\ calls[2].value.type = "result"

====
